---- MODULE Spec2Model ----
(***************************************************************************)
(* Wall-clock playback synchronisation of the JAM Player:                  *)
(*   - the timeline mapper (cycle duration, expected position, scene at    *)
(*     position) of services_v2/jam_player_display.py and jam_player_app.py*)
(*   - the sync controller ticks (tiered speed control, emergency seek)    *)
(*   - the schedule predicate is_scene_scheduled_now                       *)
(*   - the scene-by-scene playback loop of JamPlayerDisplayManager         *)
(*                                                                         *)
(* Representation of Python values:                                        *)
(*   - a float number of seconds is an integer number of "ticks", SubMs    *)
(*     ticks per millisecond; int(x * 1000) is IntMs(x) (truncation)       *)
(*   - a playback speed is an integer number of hundredths (1.01 -> 101)   *)
(*   - an optional number is None (<<>>) or Some(v) (<<v>>); a dict is a   *)
(*     function on its keys; a raised exception is recorded in exception   *)
(***************************************************************************)
EXTENDS Integers, Sequences, FiniteSets, TLC

VARIABLES
    \* ---- timeline mapper (locals of _run_scene_by_scene_sync / MediaPlayer)
    scenes,                 \* the in-memory active playlist (list of scene dicts)
    cycle_duration_ms,      \* _calculate_cycle_duration_ms(scenes)
    wall_clock_ms,          \* last value read by _get_wall_clock_ms
    position_in_cycle_ms,   \* _calculate_expected_position(cycle_duration_ms)
    scene_at,               \* result of _get_scene_at_position, or None
    loop_duration_ms,       \* MediaPlayer.loop_duration_ms
    position_ms,            \* MediaPlayer.calculate_expected_position_ms result
    exception,              \* the uncaught exception that ended the step, or NoException
    app,                    \* the running controller: "display" (scene by scene),
                            \* "display_loop" (stitched loop), "media_player", or
                            \* "scene_by_scene" (the whole _run_scene_by_scene_sync)
    \* ---- sync controller
    current_speed,          \* MediaPlayer.current_speed / manager._current_speed
    tick,                   \* the last sync tick: its inputs and what it did, or None
                            \* (in the playback loop: the tick of this iteration)
    prev_tick,              \* offset and tier of the tick before it, or None
    \* ---- schedule predicate
    now,                    \* datetime.now(): [weekday, time] (time in seconds of the day)
    schedule_scene,         \* the scene dict handed to is_scene_scheduled_now
    scheduled_now,          \* its result: None before the call, else Some(BOOLEAN)
    \* ---- scene-by-scene playback loop of JamPlayerDisplayManager
    pc,                     \* where the manager is in _run_scene_by_scene_sync
    running,                \* self.running
    current_mode,           \* self.current_mode
    scenes_file,            \* content of scenes.json: None (no file) or Some(list)
    scenes_mtime,           \* its st_mtime
    media_files,            \* the files present in the live media directory
    x_display,              \* whether feh can be launched (image written, X display up)
    mpv,                    \* self.mpv: None or Some([started |-> BOOLEAN])
    feh_process,            \* self.feh_process: None or Some(image name)
    feh_images,             \* the images shown by the running feh processes
    screen_ops,             \* the handler that last changed what is on screen: whether
                            \* a player and a static screen were there when it began,
                            \* and its operations "kill_feh", "show_feh", "start_mpv",
                            \* "stop_mpv" in the order they were made
    current_scene_index,    \* self._current_scene_index
    last_scenes_mtime,      \* self._last_scenes_mtime: None while the attribute is unset
    content_changed,        \* the local content_changed of the last top-of-loop poll (None before one)
    last_schedule_check,    \* self._last_schedule_check: 0, or 1 once a check has set it
    loaded_scenes,          \* what the latest _load_scenes() of the loop returned, or None
    commands,               \* the commands sent to the player in this iteration
    \* ---- a second device
    peer,                   \* what another device computed from its playlist and
                            \* wall clock (None while there is no other device)
    \* ---- content manager (scenes_manager_service.load_content)
    cm_pc,                  \* where load_content is in its staged-to-live swap
    staged_scenes,          \* the list written to the staged scenes.json
    previous_live,          \* the content of the live scenes.json before the swap
    file_truncated,         \* the live scenes.json is being written by copytree
    read_missing_media,     \* media files the latest _load_scenes result referenced
                            \* that were absent when it returned
    \* ---- what the display mode is derived from, and the stitched loop
    registered,             \* is_device_registered()
    screen_linked,          \* get_screen_id() is not empty
    loop_mp4,               \* loop.mp4 exists in the live media directory
    loop_meta,              \* loop_meta.json: None or Some(dict)
    \* ---- InternetConnectivityMonitor (services_v2/common/network.py)
    monitor,                \* the monitor object: failures_required,
                            \* consecutive_failures, is_online, state_changed,
                            \* last_success_method
    last_check,             \* the latest check(): what it found, the state it started
                            \* from and what it returned; None before the first check
                            \* and after reset()
    \* ---- BLEStateManager (services_v2/jam_ble_state_manager.py)
    ble_pc,                 \* "idle", "init" (run() before check_initial_state
                            \* has finished) or "monitoring" (the GLib main loop)
    nm_state,               \* NetworkManager's State property
    nm_signals,             \* PropertiesChanged signals not yet dispatched
    pending_action,         \* self._pending_action: "none", or the debounced callback
    last_connected_state,   \* self._last_connected_state: None or Some(BOOLEAN)
    service_requests,       \* the manage_service calls of the latest handler
    applied,                \* the is_online the latest handler passed to
                            \* _apply_ble_state with the registration it read, or None
    internet_verified_flag, \* INTERNET_VERIFIED_FLAG exists
    ble_active,             \* jam-ble-provisioning.service is active
    \* ---- HealthMonitor (services_v2/jam_health_monitor.py)
    health_now,             \* datetime.now(), in minutes
    trackers,               \* self._trackers: service -> ServiceFailureTracker
    findings,               \* service -> what the latest check_services did about it
    failure_log,            \* service -> the times of all failures recorded for it
    \* ---- the duration waits of JamPlayerDisplayManager (_wait_for_video_end,
    \*      _wait_for_duration); times are tenths of a second since start_time
    wait_fn,                \* which wait runs: "none", "video_end" or "duration"
    wait_pc,                \* "idle", "probe" (the duration polls of
                            \* _wait_for_video_end), "waiting" or "returned"
    wait_result,            \* what the wait returned: None or Some(BOOLEAN)
    returned_by,            \* the return statement taken: "" before it, "interrupted",
                            \* "mode", "content", "eof", "timeout" or "elapsed"
    probe_polls,            \* iterations of the duration polls completed so far
                            \* (0 again once that loop is left)
    wait_duration,          \* the local duration / duration_seconds: None or Some(d)
    elapsed,                \* current_time - start_time at the top of the iteration
    last_content_check,     \* last_content_check - start_time
    last_state_check,       \* last_state_check - start_time
    eof_reached,            \* what the player answers for 'eof-reached'
    cancel_polls,           \* None, or Some(poll iterations that went to sleep since
                            \* the running flag was cleared)
    update_age,             \* None, or Some(time slept since scenes.json was
                            \* rewritten), counted up to MaxTrackedAge
    \* ---- MediaPlayer.run (jam_player_app.py)
    mp_pc,                  \* "idle", "top" (head of the while loop), "polling" (the
                            \* duration polls after load_file) or "exited"
    loop_video_path,        \* self.loop_video_path: None or Some(file name)
    is_playing,             \* self.is_playing
    load_attempts,          \* duration polls made since the latest load_file
    polled_duration,        \* duration_sec: what the latest poll answered, or None
    update_flag,            \* sufu.should_reload_scenes()
    mpv_restarts,           \* how often the player was restarted for want of a
                            \* duration, counted up to MaxRestarts
    \* ---- MpvIpcClient and the player behind its socket
    request_id,             \* self._request_id
    socket,                 \* self.socket: None, or Some(lines of the player not yet read)
    sent,                   \* the request ids written to the socket, in order
    received,               \* the lines read from the socket for the latest command
    returned,               \* what the latest _send_command returned, None for None
    player_speed            \* the speed property of the running mpv, in hundredths

timelineVars == <<scenes, cycle_duration_ms, wall_clock_ms, position_in_cycle_ms,
                  scene_at, loop_duration_ms, position_ms, exception>>

syncVars == <<current_speed, tick, prev_tick>>

scheduleVars == <<schedule_scene, scheduled_now>>

loopVars == <<pc, running, current_mode, scenes_file, scenes_mtime, media_files, x_display,
              mpv, feh_process, feh_images, screen_ops, current_scene_index, last_scenes_mtime, content_changed,
              last_schedule_check, loaded_scenes, commands>>

swapVars == <<cm_pc, staged_scenes, previous_live, file_truncated, read_missing_media>>

gateVars == <<registered, screen_linked, loop_mp4, loop_meta>>

monitorVars == <<monitor, last_check>>

bleVars == <<ble_pc, nm_state, nm_signals, pending_action, last_connected_state,
             service_requests, applied, internet_verified_flag, ble_active>>

healthVars == <<health_now, trackers, findings, failure_log>>

waitVars == <<wait_fn, wait_pc, wait_result, returned_by, probe_polls, wait_duration, elapsed,
              last_content_check, last_state_check, eof_reached, cancel_polls, update_age>>

playerVars == <<mp_pc, loop_video_path, is_playing, load_attempts, polled_duration, update_flag,
                mpv_restarts>>

ipcVars == <<request_id, socket, sent, received, returned, player_speed>>

servicesVars == <<monitorVars, bleVars, healthVars, waitVars, playerVars, ipcVars>>

vars == <<app, servicesVars, gateVars, peer, swapVars, timelineVars, syncVars, now,
          scheduleVars, loopVars>>

None == <<>>

Some(v) == <<v>>

Val(o) == o[1]

NoException == ""

ZeroDivisionError == "ZeroDivisionError"

AttributeError == "AttributeError"

(***************************************************************************)
(* Bounds of the model                                                     *)
(***************************************************************************)
\* ticks per millisecond: the resolution of float seconds in the model
SubMs == 2

\* longest playlist
MaxScenes == 3

\* wall clock readings 0 .. MaxSmallClockMs are all enumerated
MaxSmallClockMs == 9

\* sync ticks: every duration 1 .. MaxSmallDurationMs with every expected and
\* actual position inside it is enumerated
MaxSmallDurationMs == 4

\* longest days_scheduled list handed to the schedule predicate
MaxScheduleEntries == 2

\* number of times scenes.json is rewritten while the playback loop runs
MaxMtime == 2

\* consecutive failed connectivity checks followed
MaxConsecutiveFailures == 7

\* NetworkManager signals waiting in the main loop
MaxPendingSignals == 1

\* minutes the health monitor is followed for
MaxHealthClock == 5

\* failures of a restarted service the health monitor is given to record
MaxFailuresLogged == 4

\* failures of a service that is only watched
MaxWatchedFailures == 1

(***************************************************************************)
(* Sync configuration (jam_player_display.py 102-122, jam_player_app.py    *)
(* 40-56); speeds in hundredths                                            *)
(***************************************************************************)
\* a seek threshold twice as large
seek_threshold_doubled == 2 * 500

SEEK_THRESHOLD_MS == 500

TARGET_SYNC_TOLERANCE_MS == 10

SPEED_NORMAL == 100

SPEED_GENTLE_FAST == 101

SPEED_GENTLE_SLOW == 99

SPEED_MODERATE_FAST == 103

SPEED_MODERATE_SLOW == 97

SPEED_AGGRESSIVE_FAST == 105

\* the gentle value pasted into the aggressive constant
speed_aggressive_slow_pasted == 100 - 1

SPEED_AGGRESSIVE_SLOW == 95

(***************************************************************************)
(* Conversions                                                             *)
(***************************************************************************)
\* a whole number of seconds / milliseconds as a float-seconds value
Sec(n) == n * 1000 * SubMs

MsAsSec(ms) == ms * SubMs

\* int(x * 1000) for a float x of seconds: truncation toward zero
IntMs(x) == IF x >= 0 THEN x \div SubMs ELSE -((-x) \div SubMs)

\* dict.get(key, default)
Get(d, key, default) == IF key \in DOMAIN d THEN d[key] ELSE default

Abs(x) == IF x < 0 THEN -x ELSE x

(***************************************************************************)
(* Timeline mapper                                                         *)
(***************************************************************************)
\* int(time.time() * 1000)
get_wall_clock_ms(time_time) == IntMs(time_time)

\* scene.get('actual_duration', scene.get('duration', 15)), then int(. * 1000)
scene_duration_in_ms(scene) == IntMs(Get(scene, "actual_duration", Get(scene, "duration", Sec(15))))

RECURSIVE calculate_cycle_duration_ms(_)
calculate_cycle_duration_ms(ss) ==
    IF ss = <<>> THEN 0
    ELSE scene_duration_in_ms(Head(ss)) + calculate_cycle_duration_ms(Tail(ss))

RECURSIVE scene_walk(_, _, _, _)

\* a walk that attributes a boundary position to the scene that just ended
scene_walk_inclusive(ss, position, i, elapsed_ms) ==
    IF i > Len(ss) THEN <<0, 0>>
    ELSE IF elapsed_ms + scene_duration_in_ms(ss[i]) >= position
         THEN <<i - 1, position - elapsed_ms>>
         ELSE scene_walk(ss, position, i + 1, elapsed_ms + scene_duration_in_ms(ss[i]))

\* the for loop of _get_scene_at_position from index i with elapsed_ms
scene_walk(ss, position, i, elapsed_ms) ==
    IF i > Len(ss) THEN <<0, 0>>       \* fallback: return (0, 0, scenes[0])
    ELSE IF elapsed_ms + scene_duration_in_ms(ss[i]) > position
         THEN <<i - 1, position - elapsed_ms>>
         ELSE scene_walk(ss, position, i + 1, elapsed_ms + scene_duration_in_ms(ss[i]))

\* (scene_index, position_within_scene_ms), scene_index 0-based as in the code
get_scene_at_position(ss, position) == scene_walk(ss, position, 1, 0)

\* a modulo that lets the position reach the cycle duration itself
expected_position_off_by_one(wall_clock, cycle_duration) ==
    wall_clock % (cycle_duration + 1)

\* a position that follows the commanded speed of the device
expected_position_speed_scaled(wall_clock, cycle_duration) ==
    ((wall_clock * current_speed) \div 100) % cycle_duration

\* JamPlayerDisplayManager._calculate_expected_position, for a modulus > 0
\* (a modulus of 0 raises ZeroDivisionError: see the actions that call it)
calculate_expected_position(wall_clock, cycle_duration) ==
    wall_clock % cycle_duration

\* MediaPlayer.calculate_expected_position_ms, for a modulus > 0
calculate_expected_position_ms(current_time_ms, duration_ms) ==
    current_time_ms % duration_ms

(***************************************************************************)
(* Sync controller                                                         *)
(***************************************************************************)
\* commands sent over the player control port
Seek(position_seconds) == [cmd |-> "seek", arg |-> position_seconds]

SetSpeed(speed) == [cmd |-> "set_speed", arg |-> speed]

\* what a tick did: the offset it computed (None when the tick was skipped),
\* the commands it sent in order, the tracked speed it leaves, and the
\* sync_stats counter it incremented ("" for none)
TickResult(offset, cmds, speed, counted) ==
    [offset |-> offset, cmds |-> cmds, speed |-> speed, counted |-> counted]

\* the raw offset, with no wrap correction
sync_offset_no_wrap(expected_ms, actual_ms, duration_ms) == actual_ms - expected_ms

\* a wrap correction that is applied from a quarter of the duration on
sync_offset_quarter_wrap(expected_ms, actual_ms, duration_ms) ==
    LET offset_ms == actual_ms - expected_ms
    IN  IF 4 * offset_ms > duration_ms THEN offset_ms - duration_ms
        ELSE IF 4 * offset_ms < -duration_ms THEN offset_ms + duration_ms
        ELSE offset_ms

\* JamPlayerDisplayManager._get_sync_offset_ms; the comparison with the float
\* duration_ms / 2 is offset_ms * 2 against duration_ms
get_sync_offset_ms(expected_ms, actual_ms, duration_ms) ==
    LET offset_ms == actual_ms - expected_ms
    IN  IF 2 * offset_ms > duration_ms THEN offset_ms - duration_ms
        ELSE IF 2 * offset_ms < -duration_ms THEN offset_ms + duration_ms
        ELSE offset_ms

\* MediaPlayer.get_sync_offset_ms, lines 386-398, for a reported position
mp_get_sync_offset_ms(expected_ms, actual_sec, duration_ms) ==
    LET actual_ms == IntMs(actual_sec)
        offset_ms == actual_ms - expected_ms
    IN  IF 2 * offset_ms > duration_ms THEN offset_ms - duration_ms
        ELSE IF 2 * offset_ms < -duration_ms THEN offset_ms + duration_ms
        ELSE offset_ms

\* the sign test turned around: speeds up a player that is ahead
fast_or_slow_inverted(offset_ms, fast, slow) == IF offset_ms > 0 THEN fast ELSE slow

\* SPEED_x_FAST if offset_ms < 0 else SPEED_x_SLOW
fast_or_slow(offset_ms, fast, slow) == IF offset_ms < 0 THEN fast ELSE slow

\* a speed command sent on every tick, changed or not
speed_command_always(new_speed, cur_speed) == <<SetSpeed(new_speed)>>

\* a speed command withheld only when the player is already at normal speed
speed_command_unless_correcting(new_speed, cur_speed) ==
    IF new_speed # cur_speed \/ new_speed # SPEED_NORMAL
    THEN <<SetSpeed(new_speed)>>
    ELSE <<>>

\* if new_speed != current speed: set_speed(new_speed) (and track it)
speed_command(new_speed, cur_speed) ==
    IF new_speed # cur_speed THEN <<SetSpeed(new_speed)>> ELSE <<>>

\* a missing position taken for a zero offset
no_position_as_zero_offset(cur_speed) ==
    TickResult(Some(0), speed_command(SPEED_NORMAL, cur_speed), SPEED_NORMAL, "in_sync")

\* `if actual_sec is None: return` (lines 1137-1139, 1319-1321; jam_player_app.py
\* lines 383-384 and 409-410): the tick does nothing
no_position(cur_speed) == TickResult(None, <<>>, cur_speed, "")

\* the sync_stats counter of a tick that did not seek
counted_stat(abs_offset, new_speed, cur_speed, in_sync_name) ==
    IF abs_offset > TARGET_SYNC_TOLERANCE_MS
    THEN IF new_speed # cur_speed THEN "adjustments" ELSE ""
    ELSE in_sync_name

\* the tiers with lower-inclusive boundaries (>= in place of >)
adjust_video_sync_lower_inclusive(scene_duration_ms, position_in_scene_ms, actual_sec, cur_speed) ==
    IF actual_sec = None THEN no_position(cur_speed)
    ELSE
    LET actual_ms == IntMs(Val(actual_sec))
        offset_ms == get_sync_offset_ms(position_in_scene_ms, actual_ms, scene_duration_ms)
        abs_offset == Abs(offset_ms)
        new_speed ==
            IF abs_offset >= 100
            THEN fast_or_slow(offset_ms, SPEED_AGGRESSIVE_FAST, SPEED_AGGRESSIVE_SLOW)
            ELSE IF abs_offset >= 30
            THEN fast_or_slow(offset_ms, SPEED_MODERATE_FAST, SPEED_MODERATE_SLOW)
            ELSE IF abs_offset >= TARGET_SYNC_TOLERANCE_MS
            THEN fast_or_slow(offset_ms, SPEED_GENTLE_FAST, SPEED_GENTLE_SLOW)
            ELSE SPEED_NORMAL
    IN  IF abs_offset >= SEEK_THRESHOLD_MS
        THEN TickResult(Some(offset_ms),
                        <<Seek(MsAsSec(position_in_scene_ms)), SetSpeed(SPEED_NORMAL)>>,
                        SPEED_NORMAL, "")
        ELSE TickResult(Some(offset_ms), speed_command(new_speed, cur_speed), new_speed, "")

\* JamPlayerDisplayManager._adjust_video_sync; actual_sec is the reading of
\* mpv.get_playback_time() (None or Some float seconds)
adjust_video_sync(scene_duration_ms, position_in_scene_ms, actual_sec, cur_speed) ==
    IF actual_sec = None THEN no_position(cur_speed)
    ELSE
    LET actual_ms == IntMs(Val(actual_sec))
        offset_ms == get_sync_offset_ms(position_in_scene_ms, actual_ms, scene_duration_ms)
        abs_offset == Abs(offset_ms)
        new_speed ==
            IF abs_offset > 100
            THEN fast_or_slow(offset_ms, SPEED_AGGRESSIVE_FAST, SPEED_AGGRESSIVE_SLOW)
            ELSE IF abs_offset > 30
            THEN fast_or_slow(offset_ms, SPEED_MODERATE_FAST, SPEED_MODERATE_SLOW)
            ELSE IF abs_offset > TARGET_SYNC_TOLERANCE_MS
            THEN fast_or_slow(offset_ms, SPEED_GENTLE_FAST, SPEED_GENTLE_SLOW)
            ELSE SPEED_NORMAL
    IN  IF abs_offset > SEEK_THRESHOLD_MS
        THEN TickResult(Some(offset_ms),
                        <<Seek(MsAsSec(position_in_scene_ms)), SetSpeed(SPEED_NORMAL)>>,
                        SPEED_NORMAL, "")
        ELSE TickResult(Some(offset_ms), speed_command(new_speed, cur_speed), new_speed, "")

\* the inline tick comparing the new speed with the normal speed, not with the
\* tracked one
loop_video_sync_tick_untracked(loop_duration, expected_ms, actual_sec, cur_speed) ==
    adjust_video_sync(loop_duration, expected_ms, actual_sec, SPEED_NORMAL)

\* the inline tick of _run_loop_video_sync, lines 1319-1362; expected_ms is
\* _calculate_expected_position(loop_duration_ms) read after the position
loop_video_sync_tick(loop_duration, expected_ms, actual_sec, cur_speed) ==
    IF actual_sec = None THEN no_position(cur_speed)
    ELSE
    LET actual_ms == IntMs(Val(actual_sec))
        offset_ms == get_sync_offset_ms(expected_ms, actual_ms, loop_duration)
        abs_offset == Abs(offset_ms)
        new_speed ==
            IF abs_offset > 100
            THEN fast_or_slow(offset_ms, SPEED_AGGRESSIVE_FAST, SPEED_AGGRESSIVE_SLOW)
            ELSE IF abs_offset > 30
            THEN fast_or_slow(offset_ms, SPEED_MODERATE_FAST, SPEED_MODERATE_SLOW)
            ELSE IF abs_offset > TARGET_SYNC_TOLERANCE_MS
            THEN fast_or_slow(offset_ms, SPEED_GENTLE_FAST, SPEED_GENTLE_SLOW)
            ELSE SPEED_NORMAL
    IN  IF abs_offset > SEEK_THRESHOLD_MS
        THEN TickResult(Some(offset_ms),
                        <<Seek(MsAsSec(expected_ms)), SetSpeed(SPEED_NORMAL)>>,
                        SPEED_NORMAL, "seeks")
        ELSE TickResult(Some(offset_ms), speed_command(new_speed, cur_speed), new_speed,
                        counted_stat(abs_offset, new_speed, cur_speed, "in_sync"))

\* MediaPlayer.adjust_sync; expected_ms is the expected position read in
\* get_sync_offset_ms (line 380), seek_expected_ms the one read again for
\* the emergency seek (line 418)
adjust_sync(duration_ms, expected_ms, seek_expected_ms, actual_sec, cur_speed) ==
    IF actual_sec = None THEN no_position(cur_speed)
    ELSE
    LET offset_ms == mp_get_sync_offset_ms(expected_ms, Val(actual_sec), duration_ms)
        abs_offset == Abs(offset_ms)
        new_speed ==
            IF abs_offset > 100
            THEN fast_or_slow(offset_ms, SPEED_AGGRESSIVE_FAST, SPEED_AGGRESSIVE_SLOW)
            ELSE IF abs_offset > 30
            THEN fast_or_slow(offset_ms, SPEED_MODERATE_FAST, SPEED_MODERATE_SLOW)
            ELSE IF abs_offset > TARGET_SYNC_TOLERANCE_MS
            THEN fast_or_slow(offset_ms, SPEED_GENTLE_FAST, SPEED_GENTLE_SLOW)
            ELSE SPEED_NORMAL
    IN  IF abs_offset > SEEK_THRESHOLD_MS
        THEN TickResult(Some(offset_ms),
                        <<Seek(MsAsSec(seek_expected_ms)), SetSpeed(SPEED_NORMAL)>>,
                        SPEED_NORMAL, "seeks")
        ELSE TickResult(Some(offset_ms), speed_command(new_speed, cur_speed), new_speed,
                        counted_stat(abs_offset, new_speed, cur_speed, "in_sync_count"))

(***************************************************************************)
(* Schedule predicate                                                      *)
(*   - a time string is the sequence of the integers between its colons    *)
(*     ("09:00" is <<9, 0>>); None and "" are <<>>; -1 is a field that is   *)
(*     not a number                                                        *)
(*   - a datetime.time is a number of seconds since midnight               *)
(*   - dayOfWeek is [kind |-> "str", str |-> "FRIDAY"] or, in the object   *)
(*     format, [kind |-> "dict", dict |-> [value |-> "FRIDAY",             *)
(*     label |-> "Friday"]]                                                *)
(***************************************************************************)
\* a week that starts on Sunday
weekday_names_sunday_first ==
    <<"SUNDAY", "MONDAY", "TUESDAY", "WEDNESDAY", "THURSDAY", "FRIDAY", "SATURDAY">>

\* WEEKDAY_NAMES, indexed by now.weekday() + 1
WEEKDAY_NAMES ==
    <<"MONDAY", "TUESDAY", "WEDNESDAY", "THURSDAY", "FRIDAY", "SATURDAY", "SUNDAY">>

\* dt_time(hour, minute)
dt_time(hour, minute) == hour * 3600 + minute * 60

\* parse_time_str: None for a falsy string, for fewer than two fields
\* (IndexError) and for fields int() or dt_time() reject (ValueError)
parse_time_str(time_str) ==
    IF time_str = <<>> THEN None
    ELSE IF Len(time_str) < 2 THEN None
    ELSE IF time_str[1] \notin 0 .. 23 \/ time_str[2] \notin 0 .. 59 THEN None
    ELSE Some(dt_time(time_str[1], time_str[2]))

\* lines 179-182: the day name of an entry in either format
entry_day_of_week(schedule) ==
    LET day_of_week == schedule.dayOfWeek
    IN  IF day_of_week.kind = "dict" THEN Get(day_of_week.dict, "value", "")
        ELSE day_of_week.str

\* the decision on today's entry with every two-sided window read as a day window
schedule_entry_active_day_only(schedule, current_time) ==
    LET start_time_str == Get(schedule, "startTime", <<>>)
        end_time_str == Get(schedule, "endTime", <<>>)
        start_time == parse_time_str(start_time_str)
        end_time == parse_time_str(end_time_str)
    IN  IF start_time_str = <<>> /\ end_time_str = <<>> THEN TRUE
        ELSE IF start_time # None /\ end_time # None
        THEN Val(start_time) <= current_time /\ current_time <= Val(end_time)
        ELSE IF start_time # None THEN current_time >= Val(start_time)
        ELSE IF end_time # None THEN current_time <= Val(end_time)
        ELSE FALSE

\* lines 187-218: the decision on the entry found for today
schedule_entry_active(schedule, current_time) ==
    LET start_time_str == Get(schedule, "startTime", <<>>)
        end_time_str == Get(schedule, "endTime", <<>>)
        start_time == parse_time_str(start_time_str)
        end_time == parse_time_str(end_time_str)
    IN  IF start_time_str = <<>> /\ end_time_str = <<>> THEN TRUE
        ELSE IF start_time # None /\ end_time # None
        THEN IF Val(start_time) <= Val(end_time)
             THEN Val(start_time) <= current_time /\ current_time <= Val(end_time)
             ELSE current_time >= Val(start_time) \/ current_time <= Val(end_time)
        ELSE IF start_time # None THEN current_time >= Val(start_time)
        ELSE IF end_time # None THEN current_time <= Val(end_time)
        ELSE FALSE

\* lines 178-221: the for loop over days_scheduled from entry i
RECURSIVE schedule_walk(_, _, _, _)
RECURSIVE schedule_walk_any_entry(_, _, _, _)
\* the walk going on to later entries of the day when a window does not hold
schedule_walk_any_entry(days_scheduled, i, current_weekday, current_time) ==
    IF i > Len(days_scheduled) THEN FALSE
    ELSE IF entry_day_of_week(days_scheduled[i]) # current_weekday
    THEN schedule_walk_any_entry(days_scheduled, i + 1, current_weekday, current_time)
    ELSE \/ schedule_entry_active(days_scheduled[i], current_time)
         \/ schedule_walk_any_entry(days_scheduled, i + 1, current_weekday, current_time)

schedule_walk(days_scheduled, i, current_weekday, current_time) ==
    IF i > Len(days_scheduled) THEN FALSE
    ELSE IF entry_day_of_week(days_scheduled[i]) # current_weekday
    THEN schedule_walk(days_scheduled, i + 1, current_weekday, current_time)
    ELSE schedule_entry_active(days_scheduled[i], current_time)

\* is_scene_scheduled_now, with datetime.now() as a parameter
is_scene_scheduled_now(scene, datetime_now) ==
    LET days_scheduled == Get(scene, "days_scheduled", <<>>)
    IN  IF days_scheduled = <<>> THEN TRUE
        ELSE schedule_walk(days_scheduled, 1, WEEKDAY_NAMES[datetime_now.weekday + 1],
                           datetime_now.time)

\* filter_scenes_by_schedule
filter_scenes_by_schedule(ss, datetime_now) ==
    SelectSeq(ss, LAMBDA scene : is_scene_scheduled_now(scene, datetime_now))

(***************************************************************************)
(* Scene-by-scene playback loop: its pure parts                            *)
(***************************************************************************)
PLAYING_CONTENT == "PLAYING_CONTENT"

\* list.sort(key=order) is stable: a scene goes after the scenes whose order
\* is not greater
RECURSIVE insert_by_order(_, _)
insert_by_order(sorted, scene) ==
    IF sorted = <<>> THEN <<scene>>
    ELSE IF Get(sorted[Len(sorted)], "order", 0) <= Get(scene, "order", 0)
    THEN Append(sorted, scene)
    ELSE Append(insert_by_order(SubSeq(sorted, 1, Len(sorted) - 1), scene),
                sorted[Len(sorted)])

\* line 961: scenes.sort(key=lambda s: s.get('order', 0))
RECURSIVE sort_by_order(_)
sort_by_order(ss) ==
    IF ss = <<>> THEN <<>>
    ELSE insert_by_order(sort_by_order(SubSeq(ss, 1, Len(ss) - 1)), ss[Len(ss)])

\* _load_scenes(apply_schedule_filter=True) on a given scenes.json
load_scenes(file, datetime_now) ==
    IF file = None THEN <<>>
    ELSE filter_scenes_by_schedule(sort_by_order(Val(file)), datetime_now)

\* _has_content
has_content(file, files) ==
    /\ file # None
    /\ \E k \in 1 .. Len(Val(file)) : Get(Val(file)[k], "media_file", "") \in files

\* lines 1452-1453: scene['actual_duration'] = scene.get('duration', 15)
with_actual_duration(scene) ==
    IF "actual_duration" \in DOMAIN scene THEN scene
    ELSE [k \in DOMAIN scene \cup {"actual_duration"} |->
            IF k = "actual_duration" THEN Get(scene, "duration", Sec(15)) ELSE scene[k]]

\* lines 1451-1453 / 1494-1496 / 1530-1532
RECURSIVE with_actual_durations(_)
with_actual_durations(ss) ==
    IF ss = <<>> THEN <<>>
    ELSE <<with_actual_duration(Head(ss))>> \o with_actual_durations(Tail(ss))

\* lines 1499-1500: [s.get('id') for s in scenes]
RECURSIVE scene_ids(_)
scene_ids(ss) ==
    IF ss = <<>> THEN <<>> ELSE <<Get(Head(ss), "id", "")>> \o scene_ids(Tail(ss))

\* a reload that never blanks the playlist
reload_outcome_keep_playing(new_scenes, cur_scenes) ==
    IF new_scenes # <<>> /\ scene_ids(cur_scenes) # scene_ids(new_scenes)
    THEN "changed" ELSE "unchanged"

\* lines 1492-1512: what a reload at the top of the loop does with the
\* freshly loaded active playlist
reload_outcome(new_scenes, cur_scenes) ==
    IF new_scenes # <<>>
    THEN IF scene_ids(cur_scenes) # scene_ids(new_scenes) THEN "changed" ELSE "unchanged"
    ELSE IF cur_scenes # <<>> THEN "all_off" ELSE "unchanged"

\* display_image_with_feh: the Popen handle, or None when there is no image
\* to show or no X display
display_image_with_feh(img_name, display_available) ==
    IF display_available THEN Some(img_name) ELSE None

NO_SCHEDULE_IMAGE == "jam_display_no_schedule"

LoadFile(filepath) == [cmd |-> "loadfile", arg |-> filepath]

\* a scene switch that loads the file and leaves the player where it starts
switch_commands_without_seek(media_file, is_video, position_in_scene_ms) ==
    <<LoadFile(media_file)>>

\* lines 1556-1563: the commands of a scene switch
switch_commands(media_file, is_video, position_in_scene_ms) ==
    IF is_video
    THEN <<LoadFile(media_file), Seek(MsAsSec(position_in_scene_ms)), SetSpeed(SPEED_NORMAL)>>
    ELSE <<LoadFile(media_file)>>

(***************************************************************************)
(* Display modes                                                           *)
(***************************************************************************)
UNREGISTERED == "UNREGISTERED"

REGISTERED_NOT_LINKED == "REGISTERED_NOT_LINKED"

LINKED_WAITING_FOR_CONTENT == "LINKED_WAITING_FOR_CONTENT"

\* determine_display_mode
determine_display_mode(is_registered, has_screen_id, content_available) ==
    IF ~is_registered THEN UNREGISTERED
    ELSE IF ~has_screen_id THEN REGISTERED_NOT_LINKED
    ELSE IF ~content_available THEN LINKED_WAITING_FOR_CONTENT
    ELSE PLAYING_CONTENT

\* the image name transition_to_mode hands to feh for a static mode
static_image(mode) ==
    CASE mode = UNREGISTERED -> "jam_display_unregistered"
      [] mode = REGISTERED_NOT_LINKED -> "jam_display_not_linked"
      [] OTHER -> "jam_display_waiting"

\* lines 873-889: what cleanup() does to the screen
cleanup_ops(player) ==
    <<"kill_feh">> \o (IF player # None THEN <<"stop_mpv">> ELSE <<>>)

\* a transition that starts the player before it takes the static screen down
transition_ops_player_first(old_mode, player_held, new_mode, signal_in_kill_feh) ==
    IF new_mode = PLAYING_CONTENT THEN <<"start_mpv", "kill_feh">>
    ELSE (IF player_held THEN <<"stop_mpv">> ELSE <<"kill_feh">>) \o <<"show_feh">>

\* lines 980-1048 and 1051-1063: the screen operations of transition_to_mode,
\* in their order; with a signal caught inside kill_feh_processes the
\* handler's cleanup() runs between them
transition_ops(old_mode, player_held, new_mode, signal_in_kill_feh) ==
    (IF old_mode = PLAYING_CONTENT
     THEN IF player_held THEN <<"stop_mpv">> ELSE <<>>
     ELSE <<"kill_feh">>)
    \o (IF signal_in_kill_feh THEN cleanup_ops(None) ELSE <<>>)
    \o (IF new_mode = PLAYING_CONTENT THEN <<"kill_feh", "start_mpv">> ELSE <<"show_feh">>)

\* _has_scheduled_scenes
has_scheduled_scenes(file) ==
    /\ file # None
    /\ \E k \in 1 .. Len(Val(file)) : Get(Val(file)[k], "days_scheduled", <<>>) # <<>>

(***************************************************************************)
(* Timeline specification: the mapper applied to bounded playlists and     *)
(* wall clock readings                                                     *)
(***************************************************************************)
\* durations (float seconds) a scene can carry: 0, 1 ms, 2.5 ms, 3 ms, 10 s, 20 s
DurationSamples ==
    {0, MsAsSec(1), MsAsSec(2) + (SubMs \div 2), MsAsSec(3), Sec(10), Sec(20)}

\* a scene after the duration preload (lines 1451-1453): actual_duration is set
SceneOfDuration(d) == [actual_duration |-> d]

RECURSIVE SeqsUpTo(_, _)
SeqsUpTo(S, n) ==
    IF n = 0 THEN {<<>>}
    ELSE LET shorter == SeqsUpTo(S, n - 1)
         IN  shorter \cup {Append(q, x) : q \in shorter, x \in S}

Playlists == SeqsUpTo({SceneOfDuration(d) : d \in DurationSamples}, MaxScenes)

\* time.time() readings, as float seconds
ClockSamples ==
    (0 .. MsAsSec(MaxSmallClockMs) + 1)
    \cup {MsAsSec(ms) : ms \in {30000, 39999, 40000, 59999, 85000}}

\* mpv 'duration' property values (float seconds) accepted by MediaPlayer.run
MpvDurationSamples == {d \in DurationSamples : d > 0} \cup {Sec(30)}

\* no handler has touched the screen yet
NoScreenOps == [player |-> FALSE, screen |-> FALSE, ops |-> <<>>]

\* the operations of a handler entered in the current state
ScreenOps(ops) == [player |-> mpv # None, screen |-> feh_images # {}, ops |-> ops]

TimelineIdle ==
    /\ scenes = <<>>
    /\ cycle_duration_ms = 0
    /\ wall_clock_ms = None
    /\ position_in_cycle_ms = None
    /\ scene_at = None
    /\ loop_duration_ms = 0
    /\ position_ms = None
    /\ exception = NoException

ScheduleIdle ==
    /\ now = [weekday |-> 4, time |-> 43200]
    /\ schedule_scene = [id |-> "S"]
    /\ scheduled_now = None

GateIdle ==
    /\ registered = TRUE
    /\ screen_linked = TRUE
    /\ loop_mp4 = FALSE
    /\ loop_meta = None

SwapIdle ==
    /\ cm_pc = "idle"
    /\ staged_scenes = <<>>
    /\ previous_live = None
    /\ file_truncated = FALSE
    /\ read_missing_media = {}

LoopIdle ==
    /\ peer = None
    /\ GateIdle
    /\ SwapIdle
    /\ pc = "idle"
    /\ running = TRUE
    /\ current_mode = "PLAYING_CONTENT"
    /\ scenes_file = None
    /\ scenes_mtime = 0
    /\ media_files = {}
    /\ x_display = TRUE
    /\ mpv = None
    /\ feh_process = None
    /\ feh_images = {}
    /\ screen_ops = NoScreenOps
    /\ current_scene_index = -1
    /\ last_scenes_mtime = None
    /\ content_changed = None
    /\ last_schedule_check = 0
    /\ loaded_scenes = None
    /\ commands = <<>>

SyncIdle ==
    /\ current_speed = SPEED_NORMAL
    /\ tick = None
    /\ prev_tick = None

\* network.py lines 704-722: InternetConnectivityMonitor.__init__
NewMonitor(failures_required_for_offline) ==
    [failures_required |-> failures_required_for_offline,
     consecutive_failures |-> 0,
     is_online |-> TRUE,
     state_changed |-> FALSE,
     last_success_method |-> "none"]

MonitorIdle ==
    /\ monitor = NewMonitor(5)
    /\ last_check = None

BleIdle ==
    /\ ble_pc = "idle"
    /\ nm_state = 70
    /\ nm_signals = <<>>
    /\ pending_action = "none"
    /\ last_connected_state = None
    /\ service_requests = <<>>
    /\ applied = None
    /\ internet_verified_flag = FALSE
    /\ ble_active = FALSE

HealthIdle ==
    /\ health_now = 0
    /\ trackers = <<>>
    /\ findings = <<>>
    /\ failure_log = <<>>

WaitIdle ==
    /\ wait_fn = "none"
    /\ wait_pc = "idle"
    /\ wait_result = None
    /\ returned_by = ""
    /\ probe_polls = 0
    /\ wait_duration = None
    /\ elapsed = 0
    /\ last_content_check = 0
    /\ last_state_check = 0
    /\ eof_reached = FALSE
    /\ cancel_polls = None
    /\ update_age = None

PlayerIdle ==
    /\ mp_pc = "idle"
    /\ loop_video_path = None
    /\ is_playing = FALSE
    /\ load_attempts = 0
    /\ polled_duration = None
    /\ update_flag = FALSE
    /\ mpv_restarts = 0

IpcIdle ==
    /\ request_id = 0
    /\ socket = None
    /\ sent = <<>>
    /\ received = <<>>
    /\ returned = None
    /\ player_speed = SPEED_NORMAL

ServicesIdle ==
    /\ MonitorIdle
    /\ BleIdle
    /\ HealthIdle
    /\ WaitIdle
    /\ PlayerIdle
    /\ IpcIdle

InitTimeline ==
    /\ LoopIdle
    /\ app \in {"display", "media_player"}
    /\ TimelineIdle
    /\ SyncIdle
    /\ ServicesIdle
    /\ ScheduleIdle

\* lines 1421, 1455 / 1503-1504: at the top of an iteration a non-empty active
\* playlist is taken over and its cycle duration computed
LoadPlaylist ==
    /\ app = "display"
    /\ wall_clock_ms = None
    /\ \E ss \in Playlists \ {<<>>} :
        /\ scenes' = ss
        /\ cycle_duration_ms' = calculate_cycle_duration_ms(ss)
    /\ wall_clock_ms' = None
    /\ position_in_cycle_ms' = None
    /\ scene_at' = None
    /\ exception' = NoException
    /\ UNCHANGED <<app, servicesVars, gateVars, peer, swapVars, loop_duration_ms, position_ms, syncVars, now, scheduleVars, loopVars>>

\* lines 1537-1539: expected position from the wall clock, then the scene there
MapTimeline ==
    /\ app = "display"
    /\ scenes # <<>>
    /\ wall_clock_ms = None
    /\ exception = NoException
    /\ \E t \in ClockSamples :
        LET w == get_wall_clock_ms(t)
        IN  /\ wall_clock_ms' = Some(w)
            /\ IF cycle_duration_ms = 0
               THEN /\ exception' = ZeroDivisionError
                    /\ position_in_cycle_ms' = None
                    /\ scene_at' = None
               ELSE LET p == calculate_expected_position(w, cycle_duration_ms)
                    IN  /\ exception' = NoException
                        /\ position_in_cycle_ms' = Some(p)
                        /\ scene_at' = get_scene_at_position(scenes, p)
    /\ UNCHANGED <<app, servicesVars, gateVars, peer, swapVars, scenes, cycle_duration_ms, loop_duration_ms, position_ms, syncVars, now, scheduleVars, loopVars>>

\* line 1574: the iteration ends (time.sleep(0.05)); its locals are dead
NextIteration ==
    /\ app = "display"
    /\ wall_clock_ms # None
    /\ exception = NoException
    /\ wall_clock_ms' = None
    /\ position_in_cycle_ms' = None
    /\ scene_at' = None
    /\ UNCHANGED <<app, servicesVars, gateVars, peer, swapVars, scenes, cycle_duration_ms, loop_duration_ms, position_ms,
                   exception, syncVars, now, scheduleVars, loopVars>>

\* jam_player_app.py lines 560-576: the loop duration reported by the player
MpLoadLoop ==
    /\ app = "media_player"
    /\ \E duration_sec \in MpvDurationSamples :
        loop_duration_ms' = IntMs(duration_sec)
    /\ wall_clock_ms' = None
    /\ position_ms' = None
    /\ exception' = NoException
    /\ UNCHANGED <<app, servicesVars, gateVars, peer, swapVars, scenes, cycle_duration_ms, position_in_cycle_ms, scene_at, syncVars, now, scheduleVars, loopVars>>

\* jam_player_app.py lines 360-369
MpCalculateExpectedPosition ==
    /\ app = "media_player"
    /\ loop_duration_ms # 0
    /\ exception = NoException
    /\ \E t \in ClockSamples :
        LET w == get_wall_clock_ms(t)
        IN  /\ wall_clock_ms' = Some(w)
            /\ position_ms' = Some(calculate_expected_position_ms(w, loop_duration_ms))
    /\ UNCHANGED <<app, servicesVars, gateVars, peer, swapVars, scenes, cycle_duration_ms, position_in_cycle_ms, scene_at,
                   loop_duration_ms, exception, syncVars, now, scheduleVars, loopVars>>

NextTimeline ==
    \/ LoadPlaylist
    \/ MapTimeline
    \/ NextIteration
    \/ MpLoadLoop
    \/ MpCalculateExpectedPosition

SpecTimeline == InitTimeline /\ [][NextTimeline]_vars

(***************************************************************************)
(* Sync specification: the three tick implementations applied to bounded   *)
(* (duration, expected position, reported position) inputs                 *)
(***************************************************************************)
SyncInput(duration_ms, expected_ms, actual_sec) ==
    [duration_ms |-> duration_ms, expected_ms |-> expected_ms, actual_sec |-> actual_sec]

\* sub-millisecond parts of a float reading: none, and just below the next ms
Fractions == {0, SubMs - 1}

\* every short duration with every expected position inside it and every
\* reported position up to the duration itself
SmallSyncInputs ==
    UNION {{SyncInput(d, e, Some(MsAsSec(a))) : e \in 0 .. d - 1, a \in 0 .. d} :
           d \in 1 .. MaxSmallDurationMs}

\* offsets around every tier boundary, and beyond half of the duration
OffsetMagnitudes == {0, 1, 10, 11, 30, 31, 50, 100, 101, 200, 500, 501, 700, 15000}

OffsetSamples == OffsetMagnitudes \cup {-m : m \in OffsetMagnitudes}

\* the reported position that is offset o from expected e in a unit of duration d
ActualAt(d, e, o) == (e + o + d) % d

\* a 30 s unit expected at 0.1 s, read to the millisecond
LongSyncInputs ==
    {SyncInput(30000, 100, Some(MsAsSec(ActualAt(30000, 100, o)))) : o \in OffsetSamples}
    \cup {SyncInput(30000, 9950, Some(MsAsSec(10000)))}

\* a 1 s unit (half of it is the seek threshold), read with sub-ms fractions
ShortSyncInputs ==
    {SyncInput(1000, 100, Some(MsAsSec(ActualAt(1000, 100, o)) + f)) :
        o \in OffsetSamples, f \in Fractions}

LargeSyncInputs == LongSyncInputs \cup ShortSyncInputs

\* (duration, expected position) of the long units
LongUnits == {<<30000, 100>>, <<1000, 100>>}

\* a tick at which the player reports no position
NoPositionInputs == {SyncInput(u[1], u[2], None) : u \in LongUnits}

SyncInputs == SmallSyncInputs \cup LargeSyncInputs \cup NoPositionInputs

HasSeek(cmds) == \E k \in 1 .. Len(cmds) : cmds[k].cmd = "seek"

\* correction tier of a tick: 0 none, 1 gentle, 2 moderate, 3 aggressive,
\* 4 emergency seek; read off the commands sent and the speed left
TierOfSpeed(speed) ==
    IF speed = SPEED_NORMAL THEN 0
    ELSE IF speed \in {SPEED_GENTLE_FAST, SPEED_GENTLE_SLOW} THEN 1
    ELSE IF speed \in {SPEED_MODERATE_FAST, SPEED_MODERATE_SLOW} THEN 2
    ELSE 3

Tier(result) == IF HasSeek(result.cmds) THEN 4 ELSE TierOfSpeed(result.speed)

\* the record of a tick kept in the state
TickRecord(in, seek_expected_ms, result) ==
    [duration_ms |-> in.duration_ms, expected_ms |-> in.expected_ms,
     seek_expected_ms |-> seek_expected_ms, actual_sec |-> in.actual_sec,
     speed_before |-> current_speed, result |-> result]

\* the state after a tick with the given inputs and result
AfterTick(in, seek_expected_ms, result) ==
    /\ tick' = Some(TickRecord(in, seek_expected_ms, result))
    /\ prev_tick' = IF tick = None THEN None
                    ELSE Some([offset |-> Val(tick).result.offset,
                               tier |-> Tier(Val(tick).result)])
    /\ current_speed' = result.speed
    /\ UNCHANGED <<app, servicesVars, gateVars, peer, swapVars, timelineVars, now, scheduleVars, loopVars>>

InitSync ==
    /\ LoopIdle
    /\ app \in {"display", "display_loop", "media_player"}
    /\ TimelineIdle
    /\ SyncIdle
    /\ ServicesIdle
    /\ ScheduleIdle

\* lines 1566-1572: one tick of the scene-by-scene loop
DisplaySyncTick ==
    /\ app = "display"
    /\ \E in \in SyncInputs :
        AfterTick(in, in.expected_ms,
                  adjust_video_sync(in.duration_ms, in.expected_ms, in.actual_sec,
                                    current_speed))

\* lines 1316-1362: one tick of the stitched-loop loop; the expected position
\* is read from a wall clock one cycle after the epoch
LoopSyncTick ==
    /\ app = "display_loop"
    /\ \E in \in SyncInputs :
        LET w == get_wall_clock_ms(MsAsSec(in.duration_ms + in.expected_ms))
            expected_ms == calculate_expected_position(w, in.duration_ms)
        IN  AfterTick(in, expected_ms,
                      loop_video_sync_tick(in.duration_ms, expected_ms, in.actual_sec,
                                           current_speed))

\* jam_player_app.py lines 585-588: one tick of MediaPlayer.run; the wall clock
\* is read for the offset and again, possibly 1 ms later, for the seek
MediaPlayerSyncTick ==
    /\ app = "media_player"
    /\ \E in \in SyncInputs : \E later \in {0, 1} :
        LET w == get_wall_clock_ms(MsAsSec(in.duration_ms + in.expected_ms))
            expected_ms == calculate_expected_position_ms(w, in.duration_ms)
            seek_expected_ms == calculate_expected_position_ms(w + later, in.duration_ms)
            result == adjust_sync(in.duration_ms, expected_ms, seek_expected_ms,
                                  in.actual_sec, current_speed)
        IN  /\ later = 1 => HasSeek(result.cmds)
            /\ AfterTick(in, seek_expected_ms, result)

\* a (re)load of the unit: absolute seek, speed reset to normal (lines
\* 1556-1563, 1270-1279, 1303-1308; jam_player_app.py 492-497)
InitialSync ==
    /\ tick # None
    /\ current_speed' = SPEED_NORMAL
    /\ tick' = None
    /\ prev_tick' = None
    /\ UNCHANGED <<app, servicesVars, gateVars, peer, swapVars, timelineVars, now, scheduleVars, loopVars>>

NextSync ==
    \/ DisplaySyncTick
    \/ LoopSyncTick
    \/ MediaPlayerSyncTick
    \/ InitialSync

SpecSync == InitSync /\ [][NextSync]_vars

(***************************************************************************)
(* Schedule specification: the predicate applied to bounded schedules at   *)
(* sampled instants                                                        *)
(***************************************************************************)
\* startTime / endTime pairs: none, day window, overnight window, one-sided,
\* a start that does not parse
TimeWindowSamples ==
    {<<<<>>, <<>>>>, <<<<9, 0>>, <<17, 0>>>>, <<<<22, 0>>, <<2, 0>>>>,
     <<<<9, 0>>, <<>>>>, <<<<>>, <<17, 0>>>>, <<<<25, 0>>, <<17, 0>>>>}

DayString(name) == [kind |-> "str", str |-> name]

DayObject(name, label) == [kind |-> "dict", dict |-> [value |-> name, label |-> label]]

DaySamples == {DayString("FRIDAY"), DayObject("FRIDAY", "Friday"), DayString("MONDAY")}

ScheduleEntry(day, window) ==
    [dayOfWeek |-> day, startTime |-> window[1], endTime |-> window[2]]

ScheduleEntrySamples == {ScheduleEntry(d, w) : d \in DaySamples, w \in TimeWindowSamples}

\* scenes with no days_scheduled key, and with every list of sampled entries
ScheduleSceneSamples ==
    {[id |-> "S"]}
    \cup {[id |-> "S", days_scheduled |-> ds] :
            ds \in SeqsUpTo(ScheduleEntrySamples, MaxScheduleEntries)}

\* Monday, Friday and Saturday at 01:00, 08:59:59, 09:00, 12:00, 17:00,
\* 17:00:01, 20:00 and 23:30
NowSamples ==
    {[weekday |-> d, time |-> t] :
        d \in {0, 4, 5},
        t \in {3600, 32399, 32400, 43200, 61200, 61201, 72000, 84600}}

InitSchedule ==
    /\ LoopIdle
    /\ app = "display"
    /\ TimelineIdle
    /\ SyncIdle
    /\ ServicesIdle
    /\ now \in NowSamples
    /\ schedule_scene \in ScheduleSceneSamples
    /\ scheduled_now = None

\* lines 173-175: the clock is read at another instant
ReadNow ==
    /\ scheduled_now # None
    /\ now' \in NowSamples
    /\ scheduled_now' = None
    /\ UNCHANGED <<app, servicesVars, gateVars, peer, swapVars, timelineVars, syncVars, schedule_scene, loopVars>>

\* lines 152-221: one call of is_scene_scheduled_now
CheckSchedule ==
    /\ scheduled_now = None
    /\ scheduled_now' = Some(is_scene_scheduled_now(schedule_scene, now))
    /\ UNCHANGED <<app, servicesVars, gateVars, peer, swapVars, timelineVars, syncVars, now, schedule_scene, loopVars>>

NextSchedule ==
    \/ ReadNow
    \/ CheckSchedule

SpecSchedule == InitSchedule /\ [][NextSchedule]_vars

(***************************************************************************)
(* Playback-loop specification: _run_scene_by_scene_sync as entered from   *)
(* run_video_loop, with scenes.json rewritten, the clock advancing and     *)
(* signals arriving between its steps                                      *)
(***************************************************************************)
FridayOffice ==
    [dayOfWeek |-> DayString("FRIDAY"), startTime |-> <<9, 0>>, endTime |-> <<17, 0>>]

SaturdayAllDay ==
    [dayOfWeek |-> DayObject("SATURDAY", "Saturday"), startTime |-> <<>>, endTime |-> <<>>]

FridayAllDay ==
    [dayOfWeek |-> DayString("FRIDAY"), startTime |-> <<>>, endTime |-> <<>>]

SceneA == [id |-> "A", order |-> 0, media_file |-> "a.mp4", duration |-> Sec(10)]

SceneB ==
    [id |-> "B", order |-> 1, media_file |-> "b.mp4", duration |-> Sec(20),
     days_scheduled |-> <<FridayOffice>>]

\* an image scene (scenes_manager_service.py line 514: 'IMAGE' or 'VIDEO')
SceneC ==
    [id |-> "C", order |-> 2, media_file |-> "c.mp4", media_type |-> "IMAGE",
     duration |-> Sec(10), days_scheduled |-> <<SaturdayAllDay>>]

\* scene B after an edit of its media: same id, another file and duration
SceneB2 ==
    [id |-> "B", order |-> 1, media_file |-> "b2.mp4", duration |-> Sec(10),
     days_scheduled |-> <<FridayOffice>>]

\* a scene whose duration is 0
SceneZ ==
    [id |-> "Z", order |-> 3, media_file |-> "z.mp4", duration |-> 0,
     days_scheduled |-> <<FridayAllDay>>]

\* scenes.json: missing, empty, and lists of the sample scenes (one unsorted)
ContentSamples ==
    {None, Some(<<>>), Some(<<SceneB>>), Some(<<SceneC, SceneB>>), Some(<<SceneA, SceneB>>),
     Some(<<SceneZ>>), Some(<<SceneB2>>)}

MediaSamples ==
    {{"a.mp4", "b.mp4", "b2.mp4", "c.mp4", "z.mp4"}, {"a.mp4", "b2.mp4", "c.mp4", "z.mp4"}}

\* Friday 08:00, 12:00 and 20:00, Saturday 12:00
LoopNowSamples ==
    {[weekday |-> 4, time |-> 28800], [weekday |-> 4, time |-> 43200],
     [weekday |-> 4, time |-> 72000], [weekday |-> 5, time |-> 43200]}

Later(a, b) == a.weekday < b.weekday \/ (a.weekday = b.weekday /\ a.time < b.time)

\* time.time() read in an iteration
LoopClockSamples == {Sec(5), Sec(25), Sec(40) + 1}

\* mpv.get_playback_time() when the scene should be at position_in_scene_ms
PlaybackTimeSamples(position_in_scene_ms) ==
    {None, Some(MsAsSec(position_in_scene_ms)), Some(MsAsSec(position_in_scene_ms + 50))}

InitLoop ==
    /\ app = "scene_by_scene"
    /\ peer = None
    /\ GateIdle
    /\ SwapIdle
    /\ TimelineIdle
    /\ SyncIdle
    /\ ServicesIdle
    /\ schedule_scene = [id |-> "S"]
    /\ scheduled_now = None
    /\ now \in LoopNowSamples
    /\ pc = "enter"
    /\ running = TRUE
    /\ current_mode = PLAYING_CONTENT
    /\ scenes_file \in ContentSamples
    /\ scenes_mtime = 0
    /\ media_files \in MediaSamples
    /\ has_content(scenes_file, media_files)
    /\ x_display \in BOOLEAN
    /\ mpv \in {Some([started |-> b]) : b \in BOOLEAN}
    /\ feh_process = None
    /\ feh_images = {}
    /\ screen_ops = NoScreenOps
    /\ current_scene_index = -1
    /\ last_scenes_mtime = None
    /\ content_changed = None
    /\ last_schedule_check = 0
    /\ loaded_scenes = None
    /\ commands = <<>>

InLoop == app = "scene_by_scene" /\ pc \in {"enter", "initial_wait", "loop_top", "no_content_wait", "play"}

StillPlaying == running /\ current_mode = PLAYING_CONTENT

\* _show_no_scheduled_content_screen: the player is stopped and dropped, the
\* screen is handed to feh
ShowNoScheduledContentScreen ==
    /\ mpv' = None
    /\ screen_ops' = ScreenOps((IF mpv # None THEN <<"stop_mpv">> ELSE <<>>) \o <<"show_feh">>)
    /\ feh_process' = display_image_with_feh(NO_SCHEDULE_IMAGE, x_display)
    /\ feh_images' = IF x_display THEN feh_images \cup {NO_SCHEDULE_IMAGE} ELSE feh_images

\* lines 1435-1443 / 1521-1528: feh is killed, the handle dropped, and
\* _start_video_playback creates the player, whose start may fail
ResumePlayer ==
    /\ feh_images' = {}
    /\ screen_ops' = ScreenOps(<<"kill_feh", "kill_feh", "start_mpv">>)
    /\ feh_process' = None
    /\ \E started \in BOOLEAN : mpv' = Some([started |-> started])

\* lines 1451-1462: the loop state for a freshly loaded playlist
StartLoopWith(ss) ==
    /\ scenes' = with_actual_durations(ss)
    /\ cycle_duration_ms' = calculate_cycle_duration_ms(with_actual_durations(ss))
    /\ current_speed' = SPEED_NORMAL
    /\ current_scene_index' = -1
    /\ last_schedule_check' = 0
    /\ pc' = "loop_top"

\* lines 1421-1426, 1449-1462: the playlist is loaded on entry
Enter ==
    /\ app = "scene_by_scene"
    /\ pc = "enter"
    /\ LET loaded == load_scenes(scenes_file, now)
       IN  /\ loaded_scenes' = Some(loaded)
           /\ IF loaded = <<>>
              THEN /\ ShowNoScheduledContentScreen
                   /\ scenes' = <<>>
                   /\ pc' = "initial_wait"
                   /\ UNCHANGED <<cycle_duration_ms, current_speed, current_scene_index,
                                  last_schedule_check>>
              ELSE /\ StartLoopWith(loaded)
                   /\ UNCHANGED <<mpv, feh_process, feh_images, screen_ops>>
    /\ UNCHANGED <<app, servicesVars, gateVars, peer, swapVars, wall_clock_ms, position_in_cycle_ms, scene_at, loop_duration_ms,
                   position_ms, exception, tick, prev_tick, now, scheduleVars, running,
                   current_mode, scenes_file, scenes_mtime, media_files, x_display,
                   last_scenes_mtime, content_changed, commands>>

\* lines 1428-1447: one round of the wait for a schedule window to open
InitialWait ==
    /\ app = "scene_by_scene"
    /\ pc = "initial_wait"
    /\ IF ~StillPlaying
       THEN /\ pc' = "returned"
            /\ UNCHANGED <<scenes, cycle_duration_ms, current_speed, current_scene_index,
                           last_schedule_check, mpv, feh_process, feh_images, screen_ops, loaded_scenes>>
       ELSE LET loaded == load_scenes(scenes_file, now)
            IN  /\ loaded_scenes' = Some(loaded)
                /\ IF loaded # <<>>
                   THEN /\ ResumePlayer
                        /\ StartLoopWith(loaded)
                   ELSE /\ scenes' = <<>>
                        /\ UNCHANGED <<pc, cycle_duration_ms, current_speed,
                                       current_scene_index, last_schedule_check, mpv,
                                       feh_process, feh_images, screen_ops>>
    /\ UNCHANGED <<app, servicesVars, gateVars, peer, swapVars, wall_clock_ms, position_in_cycle_ms, scene_at, loop_duration_ms,
                   position_ms, exception, tick, prev_tick, now, scheduleVars, running,
                   current_mode, scenes_file, scenes_mtime, media_files, x_display,
                   last_scenes_mtime, content_changed, commands>>

\* the change signal always raised, whatever the modification time
scenes_changed_on_every_poll(mtime, last_mtime) ==
    TRUE

\* lines 1474-1477: content_changed: the attribute is still unset, or the
\* modification time differs from the one stored at the last change
scenes_changed(mtime, last_mtime) ==
    last_mtime = None \/ mtime # Val(last_mtime)

\* lines 1467-1514: the top of an iteration: the content/schedule reload, then
\* the branch on an empty playlist. Whether 60 s have passed since the last
\* schedule check is an input, except that they have when none was made
LoopTop ==
    /\ app = "scene_by_scene"
    /\ pc = "loop_top"
    /\ wall_clock_ms' = None
    /\ position_in_cycle_ms' = None
    /\ scene_at' = None
    /\ tick' = None
    /\ commands' = <<>>
    /\ IF ~StillPlaying
       THEN /\ pc' = "returned"
            /\ UNCHANGED <<scenes, cycle_duration_ms, current_scene_index, last_scenes_mtime, content_changed,
                           last_schedule_check, loaded_scenes, mpv, feh_process, feh_images, screen_ops>>
       ELSE \E sixty_seconds_passed \in BOOLEAN :
            LET mtime == IF scenes_file = None THEN 0 ELSE scenes_mtime
                changed == scenes_changed(mtime, last_scenes_mtime)
                schedule_check_needed == last_schedule_check = 0 \/ sixty_seconds_passed
                new_scenes == with_actual_durations(load_scenes(scenes_file, now))
                outcome == IF changed \/ schedule_check_needed
                           THEN reload_outcome(new_scenes, scenes) ELSE "unchanged"
            IN  /\ last_scenes_mtime' = IF changed THEN Some(mtime)
                                        ELSE last_scenes_mtime
                /\ last_schedule_check' = IF schedule_check_needed THEN 1
                                          ELSE last_schedule_check
                /\ content_changed' = Some(changed)
                /\ loaded_scenes' = IF changed \/ schedule_check_needed
                                    THEN Some(new_scenes) ELSE loaded_scenes
                /\ scenes' = CASE outcome = "changed" -> new_scenes
                               [] outcome = "all_off" -> <<>>
                               [] OTHER -> scenes
                /\ cycle_duration_ms' = IF outcome = "changed"
                                        THEN calculate_cycle_duration_ms(new_scenes)
                                        ELSE cycle_duration_ms
                /\ current_scene_index' = IF outcome = "unchanged" THEN current_scene_index
                                          ELSE -1
                /\ IF outcome = "all_off"
                   THEN ShowNoScheduledContentScreen
                   ELSE UNCHANGED <<mpv, feh_process, feh_images, screen_ops>>
                /\ pc' = IF scenes' = <<>> THEN "no_content_wait" ELSE "play"
    /\ UNCHANGED <<app, servicesVars, gateVars, peer, swapVars, loop_duration_ms, position_ms, exception, current_speed, prev_tick,
                   now, scheduleVars, running, current_mode, scenes_file, scenes_mtime,
                   media_files, x_display>>

\* lines 1514-1535: the 5-second re-check while nothing is scheduled
NoContentRecheck ==
    /\ app = "scene_by_scene"
    /\ pc = "no_content_wait"
    /\ LET new_scenes == load_scenes(scenes_file, now)
       IN  /\ loaded_scenes' = Some(new_scenes)
           /\ IF new_scenes # <<>>
              THEN /\ ResumePlayer
                   /\ scenes' = with_actual_durations(new_scenes)
                   /\ cycle_duration_ms' =
                        calculate_cycle_duration_ms(with_actual_durations(new_scenes))
                   /\ current_scene_index' = -1
              ELSE UNCHANGED <<mpv, feh_process, feh_images, screen_ops, scenes, cycle_duration_ms,
                               current_scene_index>>
    /\ pc' = "loop_top"
    /\ UNCHANGED <<app, servicesVars, gateVars, peer, swapVars, wall_clock_ms, position_in_cycle_ms, scene_at, loop_duration_ms,
                   position_ms, exception, syncVars, now, scheduleVars, running,
                   current_mode, scenes_file, scenes_mtime, media_files, x_display,
                   last_scenes_mtime, content_changed, last_schedule_check, commands>>

\* the step ends with an uncaught exception
Crash(exc) ==
    /\ exception' = exc
    /\ pc' = "crashed"

\* lines 1537-1574: expected position, scene switch, sync tick. Whether the
\* 100 ms between sync checks have passed is an input. Only a VIDEO scene is
\* seeked after its load (line 1559) and gets sync ticks (line 1571)
PlayStep ==
    /\ app = "scene_by_scene"
    /\ pc = "play"
    /\ \E t \in LoopClockSamples :
        LET w == get_wall_clock_ms(t)
        IN  /\ wall_clock_ms' = Some(w)
            /\ IF cycle_duration_ms = 0
               THEN /\ Crash(ZeroDivisionError)
                    /\ UNCHANGED <<position_in_cycle_ms, scene_at, current_scene_index,
                                   commands, current_speed, tick>>
               ELSE
               LET p == calculate_expected_position(w, cycle_duration_ms)
                   at == get_scene_at_position(scenes, p)
                   scene_index == at[1]
                   position_in_scene_ms == at[2]
                   scene == scenes[scene_index + 1]
                   scene_duration_ms == scene_duration_in_ms(scene)
                   switch == scene_index # current_scene_index
                   is_video == Get(scene, "media_type", "VIDEO") = "VIDEO"
                   switch_cmds == switch_commands(scene.media_file, is_video,
                                                  position_in_scene_ms)
                   speed_before == IF switch /\ is_video THEN SPEED_NORMAL
                                   ELSE current_speed
               IN  /\ position_in_cycle_ms' = Some(p)
                   /\ scene_at' = at
                   /\ IF switch /\ scene.media_file \notin media_files
                      THEN /\ pc' = "loop_top"
                           /\ UNCHANGED <<exception, current_scene_index, commands,
                                          current_speed, tick>>
                      ELSE IF switch /\ mpv = None
                      THEN /\ Crash(AttributeError)
                           /\ current_scene_index' = scene_index
                           /\ UNCHANGED <<commands, current_speed, tick>>
                      ELSE
                      /\ current_scene_index' = scene_index
                      /\ pc' = "loop_top"
                      /\ UNCHANGED exception
                      /\ \E sync_check_due \in BOOLEAN :
                         IF ~sync_check_due \/ ~is_video
                         THEN /\ commands' = IF switch THEN switch_cmds ELSE <<>>
                              /\ current_speed' = speed_before
                              /\ tick' = None
                         ELSE \E actual_sec \in
                                    IF Val(mpv).started
                                    THEN PlaybackTimeSamples(position_in_scene_ms)
                                    ELSE {None} :
                              LET result == adjust_video_sync(scene_duration_ms,
                                                position_in_scene_ms, actual_sec,
                                                speed_before)
                              IN  /\ commands' = (IF switch THEN switch_cmds ELSE <<>>)
                                                 \o result.cmds
                                  /\ current_speed' = result.speed
                                  /\ tick' = Some([duration_ms |-> scene_duration_ms,
                                                   expected_ms |-> position_in_scene_ms,
                                                   seek_expected_ms |-> position_in_scene_ms,
                                                   actual_sec |-> actual_sec,
                                                   speed_before |-> speed_before,
                                                   result |-> result])
    /\ UNCHANGED <<app, servicesVars, gateVars, peer, swapVars, scenes, cycle_duration_ms, loop_duration_ms, position_ms, prev_tick,
                   now, scheduleVars, running, current_mode, scenes_file, scenes_mtime,
                   media_files, x_display, mpv, feh_process, feh_images, screen_ops, last_scenes_mtime, content_changed,
                   last_schedule_check, loaded_scenes>>

\* the content service rewrites (or removes) scenes.json
ContentUpdate ==
    /\ InLoop
    /\ scenes_mtime < MaxMtime
    /\ scenes_file' \in ContentSamples \ {scenes_file}
    /\ scenes_mtime' = scenes_mtime + 1
    /\ UNCHANGED <<app, servicesVars, gateVars, peer, swapVars, timelineVars, syncVars, now, scheduleVars, pc, running, current_mode,
                   media_files, x_display, mpv, feh_process, feh_images, screen_ops,
                   current_scene_index, last_scenes_mtime, content_changed, last_schedule_check,
                   loaded_scenes, commands>>

\* the wall clock reaches a later sampled instant
TimePasses ==
    /\ app = "scene_by_scene"
    /\ pc \notin {"idle", "exited", "crashed"}
    /\ \E later \in LoopNowSamples :
        /\ Later(now, later)
        /\ now' = later
    /\ UNCHANGED <<app, servicesVars, gateVars, peer, swapVars, timelineVars, syncVars, scheduleVars, loopVars>>

\* _signal_handler and cleanup: SIGINT/SIGTERM ends the process
SignalHandler ==
    /\ app = "scene_by_scene"
    /\ pc \notin {"idle", "exited", "crashed"}
    /\ running' = FALSE
    /\ feh_process' = None
    /\ feh_images' = {}
    /\ mpv' = None
    /\ screen_ops' = ScreenOps(cleanup_ops(mpv))
    /\ pc' = "exited"
    /\ UNCHANGED <<app, servicesVars, gateVars, peer, swapVars, timelineVars, syncVars, now, scheduleVars, current_mode, scenes_file,
                   scenes_mtime, media_files, x_display, current_scene_index,
                   last_scenes_mtime, content_changed, last_schedule_check, loaded_scenes, commands>>

NextLoop ==
    \/ Enter
    \/ InitialWait
    \/ LoopTop
    \/ NoContentRecheck
    \/ PlayStep
    \/ ContentUpdate
    \/ TimePasses
    \/ SignalHandler

SpecLoop == InitLoop /\ [][NextLoop]_vars

\* the steps _run_scene_by_scene_sync takes by itself
LoopStep ==
    \/ Enter
    \/ InitialWait
    \/ LoopTop
    \/ NoContentRecheck
    \/ PlayStep

NextResume ==
    \/ LoopStep
    \/ TimePasses
    \/ SignalHandler

\* the loop with an unchanged scenes.json while schedule windows open and
\* close; the loop keeps running while it has a step to take
SpecResume == InitLoop /\ [][NextResume]_vars /\ WF_vars(LoopStep)

(***************************************************************************)
(* Two-device specification: one device maps its playlist and wall clock,  *)
(* then a second device in another internal state (tracked scene index,    *)
(* commanded speed, tick history) maps its own                             *)
(***************************************************************************)
DevicePlaylists ==
    {<<SceneOfDuration(Sec(10))>>,
     <<SceneOfDuration(Sec(10)), SceneOfDuration(Sec(20))>>,
     <<SceneOfDuration(Sec(20)), SceneOfDuration(Sec(10))>>,
     <<SceneOfDuration(MsAsSec(1)), SceneOfDuration(MsAsSec(2) + (SubMs \div 2)),
       SceneOfDuration(MsAsSec(3))>>}

\* the same playlist as scenes.json gives it: an id and a duration, the
\* actual_duration not yet filled in
RECURSIVE AsLoaded(_)
AsLoaded(ss) ==
    IF ss = <<>> THEN <<>>
    ELSE <<[id |-> "x", duration |-> Head(ss).actual_duration]>> \o AsLoaded(Tail(ss))

DeviceSpeedSamples == {SPEED_NORMAL, SPEED_AGGRESSIVE_FAST}

TickHistorySamples == {None, Some([offset |-> Some(200), tier |-> 3])}

InitDevices ==
    /\ app \in {"display", "media_player"}
    /\ LoopIdle
    /\ SyncIdle
    /\ ServicesIdle
    /\ ScheduleIdle
    /\ wall_clock_ms = None
    /\ position_in_cycle_ms = None
    /\ scene_at = None
    /\ position_ms = None
    /\ exception = NoException
    /\ IF app = "display"
       THEN /\ scenes \in DevicePlaylists
            /\ cycle_duration_ms = calculate_cycle_duration_ms(scenes)
            /\ loop_duration_ms = 0
       ELSE /\ scenes = <<>>
            /\ cycle_duration_ms = 0
            /\ loop_duration_ms \in {IntMs(d) : d \in MpvDurationSamples}

\* the state turns to the second device; the first one's computation is kept
NextDevice ==
    /\ peer = None
    /\ wall_clock_ms # None
    /\ exception = NoException
    /\ peer' = Some([scenes |-> scenes, loop_duration_ms |-> loop_duration_ms,
                     wall_clock_ms |-> wall_clock_ms,
                     cycle_duration_ms |-> cycle_duration_ms,
                     position_in_cycle_ms |-> position_in_cycle_ms,
                     scene_at |-> scene_at, position_ms |-> position_ms])
    /\ IF app = "display"
       THEN /\ scenes' \in {scenes, AsLoaded(scenes), <<SceneOfDuration(Sec(10))>>}
            /\ cycle_duration_ms' = calculate_cycle_duration_ms(scenes')
            /\ current_scene_index' \in {-1, Len(scenes') - 1}
            /\ UNCHANGED loop_duration_ms
       ELSE /\ loop_duration_ms' \in {loop_duration_ms, IntMs(Sec(30))}
            /\ UNCHANGED <<scenes, cycle_duration_ms, current_scene_index>>
    /\ current_speed' \in DeviceSpeedSamples
    /\ prev_tick' \in TickHistorySamples
    /\ wall_clock_ms' = None
    /\ position_in_cycle_ms' = None
    /\ scene_at' = None
    /\ position_ms' = None
    /\ UNCHANGED <<app, servicesVars, gateVars, swapVars, exception, tick, now, scheduleVars, pc, running,
                   current_mode, scenes_file, scenes_mtime, media_files, x_display, mpv,
                   feh_process, feh_images, screen_ops, last_scenes_mtime, content_changed, last_schedule_check,
                   loaded_scenes, commands>>

NextDevices ==
    \/ MapTimeline
    \/ NextIteration
    \/ MpCalculateExpectedPosition
    \/ NextDevice

SpecDevices == InitDevices /\ [][NextDevices]_vars

(***************************************************************************)
(* Content-swap specification: load_content of the content manager swaps   *)
(* the staged scenes directory to live while the display service calls     *)
(* _load_scenes at any moment                                              *)
(***************************************************************************)
\* a processed scene as load_content writes it (lines 510-517), unscheduled
ProcessedScene(id, order, media_file) ==
    [id |-> id, order |-> order, media_file |-> media_file, duration |-> Sec(10),
     days_scheduled |-> <<>>]

SwapPlaylists ==
    {<<ProcessedScene("A", 0, "a.mp4")>>,
     <<ProcessedScene("A", 0, "a.mp4"), ProcessedScene("D", 1, "d.mp4")>>,
     <<ProcessedScene("D", 0, "d.mp4")>>,
     <<ProcessedScene("E", 0, "e.mp4"), ProcessedScene("D", 1, "d.mp4")>>}

\* lines 552: {s.get('media_file') for s in processed_scenes if s.get('media_file')}
referenced_files(processed_scenes) ==
    {processed_scenes[k].media_file : k \in 1 .. Len(processed_scenes)}

\* cleanup_unused_media: what is left in the live media directory
cleanup_unused_media(files, referenced) == files \cap referenced

\* load_content has staged a new non-empty list and downloaded its media into
\* the live media directory; the live directory still holds the previous list
InitSwap ==
    /\ app = "content_swap"
    /\ peer = None
    /\ GateIdle
    /\ TimelineIdle
    /\ SyncIdle
    /\ ServicesIdle
    /\ ScheduleIdle
    /\ pc = "idle"
    /\ running = TRUE
    /\ current_mode = PLAYING_CONTENT
    /\ scenes_mtime = 0
    /\ x_display = TRUE
    /\ mpv = None
    /\ feh_process = None
    /\ feh_images = {}
    /\ screen_ops = NoScreenOps
    /\ current_scene_index = -1
    /\ last_scenes_mtime = None
    /\ content_changed = None
    /\ last_schedule_check = 0
    /\ loaded_scenes = None
    /\ commands = <<>>
    /\ cm_pc = "staged"
    /\ staged_scenes \in SwapPlaylists
    /\ \E live \in SwapPlaylists :
        /\ scenes_file = Some(live)
        /\ previous_live = Some(live)
        /\ media_files = referenced_files(live) \cup referenced_files(staged_scenes)
    /\ file_truncated = FALSE
    /\ read_missing_media = {}

\* lines 547-548: shutil.rmtree(LIVE_SCENES_DIR)
RemoveLiveScenes ==
    /\ app = "content_swap"
    /\ cm_pc = "staged"
    /\ scenes_file' = None
    /\ cm_pc' = "removed"
    /\ UNCHANGED <<app, servicesVars, gateVars, peer, timelineVars, syncVars, now, scheduleVars, staged_scenes,
                   previous_live, file_truncated, read_missing_media, pc, running,
                   current_mode, scenes_mtime, media_files, x_display, mpv, feh_process,
                   feh_images, screen_ops, current_scene_index, last_scenes_mtime, content_changed,
                   last_schedule_check, loaded_scenes, commands>>

\* line 549: shutil.copytree creates the live scenes.json and starts writing it
CopyBegins ==
    /\ app = "content_swap"
    /\ cm_pc = "removed"
    /\ scenes_file' = Some(staged_scenes)
    /\ scenes_mtime' = scenes_mtime + 1
    /\ file_truncated' = TRUE
    /\ cm_pc' = "copying"
    /\ UNCHANGED <<app, servicesVars, gateVars, peer, timelineVars, syncVars, now, scheduleVars, staged_scenes,
                   previous_live, read_missing_media, pc, running, current_mode,
                   media_files, x_display, mpv, feh_process, feh_images, screen_ops,
                   current_scene_index, last_scenes_mtime, content_changed, last_schedule_check,
                   loaded_scenes, commands>>

\* line 549: the copy of scenes.json is complete
CopyEnds ==
    /\ app = "content_swap"
    /\ cm_pc = "copying"
    /\ file_truncated' = FALSE
    /\ cm_pc' = "copied"
    /\ UNCHANGED <<app, servicesVars, gateVars, peer, timelineVars, syncVars, now, scheduleVars, staged_scenes,
                   previous_live, read_missing_media, pc, running, current_mode,
                   scenes_file, scenes_mtime, media_files, x_display, mpv, feh_process,
                   feh_images, screen_ops, current_scene_index, last_scenes_mtime, content_changed,
                   last_schedule_check, loaded_scenes, commands>>

\* lines 551-553: the media no scene of the new list references is deleted
CleanupUnusedMedia ==
    /\ app = "content_swap"
    /\ cm_pc = "copied"
    /\ media_files' = cleanup_unused_media(media_files, referenced_files(staged_scenes))
    /\ cm_pc' = "done"
    /\ UNCHANGED <<app, servicesVars, gateVars, peer, timelineVars, syncVars, now, scheduleVars, staged_scenes,
                   previous_live, file_truncated, read_missing_media, pc, running,
                   current_mode, scenes_file, scenes_mtime, x_display, mpv, feh_process,
                   feh_images, screen_ops, current_scene_index, last_scenes_mtime, content_changed,
                   last_schedule_check, loaded_scenes, commands>>

\* _load_scenes of the display service, at any moment of the swap; json.load
\* raises on a file that is still being written and [] is returned
DisplayLoadScenes ==
    /\ app = "content_swap"
    /\ LET loaded == IF file_truncated THEN <<>> ELSE load_scenes(scenes_file, now)
       IN  /\ loaded_scenes' = Some(loaded)
           /\ read_missing_media' = referenced_files(loaded) \ media_files
    /\ UNCHANGED <<app, servicesVars, gateVars, peer, timelineVars, syncVars, now, scheduleVars, cm_pc,
                   staged_scenes, previous_live, file_truncated, pc, running,
                   current_mode, scenes_file, scenes_mtime, media_files, x_display, mpv,
                   feh_process, feh_images, screen_ops, current_scene_index, last_scenes_mtime, content_changed,
                   last_schedule_check, commands>>

NextSwap ==
    \/ RemoveLiveScenes
    \/ CopyBegins
    \/ CopyEnds
    \/ CleanupUnusedMedia
    \/ DisplayLoadScenes

SpecSwap == InitSwap /\ [][NextSwap]_vars

(***************************************************************************)
(* Display-manager specification: run() deriving the display mode and      *)
(* entering the playback loops, while the registration flag and the screen *)
(* link change, the clock advances and signals arrive                      *)
(***************************************************************************)
\* loop_meta.json contents: a 30 s loop, and one whose total_duration is 0
LoopMetaSamples == {None, Some([total_duration |-> Sec(30)]), Some([total_duration |-> 0])}

\* scenes.json as in the playback-loop specification, or one unscheduled scene
RunContentSamples == ContentSamples \cup {Some(<<SceneA>>)}

\* the manager after __init__, before run()
InitRun ==
    /\ app = "scene_by_scene"
    /\ peer = None
    /\ SwapIdle
    /\ TimelineIdle
    /\ SyncIdle
    /\ ServicesIdle
    /\ schedule_scene = [id |-> "S"]
    /\ scheduled_now = None
    /\ now \in LoopNowSamples
    /\ pc = "run"
    /\ running = TRUE
    /\ current_mode = "None"
    /\ scenes_file \in RunContentSamples
    /\ scenes_mtime = 0
    /\ media_files \in MediaSamples
    /\ x_display = TRUE
    /\ mpv = None
    /\ feh_process = None
    /\ feh_images = {}
    /\ screen_ops = NoScreenOps
    /\ current_scene_index = -1
    /\ last_scenes_mtime = None
    /\ content_changed = None
    /\ last_schedule_check = 0
    /\ loaded_scenes = None
    /\ commands = <<>>
    /\ registered \in BOOLEAN
    /\ screen_linked \in BOOLEAN
    /\ loop_mp4 \in BOOLEAN
    /\ loop_meta \in LoopMetaSamples

\* the mode the gate asks for now
DesiredMode ==
    determine_display_mode(registered, screen_linked, has_content(scenes_file, media_files))

\* lines 1688-1717: one iteration of run(): the periodic state check with
\* transition_to_mode, then run_video_loop choosing the playback loop, or
\* the wait in a static mode. Whether STATE_CHECK_INTERVAL_SEC has passed
\* is an input
RunStep(signal_swallowed) ==
    /\ app = "scene_by_scene"
    /\ pc \in {"run", "returned"}
    /\ signal_swallowed => running
    /\ running' = (running /\ ~signal_swallowed)
    /\ IF ~running
       THEN /\ pc' = "exited"
            /\ feh_process' = None
            /\ feh_images' = {}
            /\ mpv' = None
            /\ screen_ops' = ScreenOps(cleanup_ops(mpv))
            /\ UNCHANGED current_mode
       ELSE \E check_due \in BOOLEAN, started \in BOOLEAN :
            LET new_mode == IF current_mode = "None" \/ check_due THEN DesiredMode
                            ELSE current_mode
                transition == new_mode # current_mode
                leaving_playing == transition /\ current_mode = PLAYING_CONTENT
                leaving_static == transition /\ current_mode # PLAYING_CONTENT
                feh_left == IF leaving_static THEN {} ELSE feh_images
                image == static_image(new_mode)
            IN  /\ signal_swallowed => transition /\ new_mode = PLAYING_CONTENT
                /\ current_mode' = new_mode
                /\ mpv' = IF transition /\ new_mode = PLAYING_CONTENT
                          THEN Some([started |-> started])
                          ELSE IF leaving_playing THEN None ELSE mpv
                /\ feh_process' = IF transition /\ new_mode # PLAYING_CONTENT
                                  THEN display_image_with_feh(image, x_display)
                                  ELSE IF leaving_static THEN None ELSE feh_process
                /\ screen_ops' =
                     IF ~transition THEN screen_ops
                     ELSE ScreenOps(transition_ops(current_mode, mpv # None, new_mode,
                                                   signal_swallowed))
                /\ feh_images' = IF transition /\ new_mode = PLAYING_CONTENT THEN {}
                                 ELSE IF transition /\ x_display THEN feh_left \cup {image}
                                 ELSE feh_left
                /\ pc' = IF new_mode # PLAYING_CONTENT THEN "run"
                         ELSE IF mpv' = None THEN "returned"
                         ELSE IF has_scheduled_scenes(scenes_file) THEN "enter"
                         ELSE IF loop_mp4 /\ loop_meta # None THEN "loop_enter"
                         ELSE "enter"
    /\ UNCHANGED <<app, servicesVars, gateVars, peer, swapVars, timelineVars, syncVars, now, scheduleVars,
                   scenes_file, scenes_mtime, media_files, x_display,
                   current_scene_index, last_scenes_mtime, content_changed, last_schedule_check,
                   loaded_scenes, commands>>

\* lines 1685-1717 without a signal
Run == RunStep(FALSE)

\* lines 867-871 entered while run() is inside kill_feh_processes() on its way
\* into PLAYING_CONTENT (lines 987 and 1054): the handler clears the running
\* flag and runs cleanup(), and the SystemExit it raises inside subprocess.run
\* is caught by the bare `except:` of line 621, so _start_video_playback()
\* goes on to start the player and run() enters run_video_loop()
SignalInKillFeh == RunStep(TRUE)

\* lines 1262-1286: the stitched loop is loaded and seeked to the expected
\* position
LoopVideoEnter ==
    /\ app = "scene_by_scene"
    /\ pc = "loop_enter"
    /\ LET duration_ms == IntMs(Get(Val(loop_meta), "total_duration", Sec(60)))
       IN  /\ loop_duration_ms' = duration_ms
           /\ \E t \in LoopClockSamples :
               LET w == get_wall_clock_ms(t)
               IN  /\ wall_clock_ms' = Some(w)
                   /\ IF duration_ms = 0
                      THEN /\ Crash(ZeroDivisionError)
                           /\ commands' = <<LoadFile("loop.mp4")>>
                           /\ UNCHANGED <<position_ms, current_speed>>
                      ELSE LET expected_ms == calculate_expected_position(w, duration_ms)
                           IN  /\ position_ms' = Some(expected_ms)
                               /\ commands' = <<LoadFile("loop.mp4"),
                                                Seek(MsAsSec(expected_ms)),
                                                SetSpeed(SPEED_NORMAL)>>
                               /\ current_speed' = SPEED_NORMAL
                               /\ pc' = "loop_video"
                               /\ UNCHANGED exception
    /\ tick' = None
    /\ UNCHANGED <<app, servicesVars, gateVars, peer, swapVars, scenes, cycle_duration_ms,
                   position_in_cycle_ms, scene_at, prev_tick, now, scheduleVars, running,
                   current_mode, scenes_file, scenes_mtime, media_files, x_display, mpv,
                   feh_process, feh_images, screen_ops, current_scene_index, last_scenes_mtime, content_changed,
                   last_schedule_check, loaded_scenes>>

\* lines 1288-1375: one iteration of the stitched-loop loop: the reload when
\* loop.mp4 was rebuilt, else the sync tick. Whether the file was rebuilt and
\* whether the 100 ms between sync checks have passed are inputs. An exception
\* in the reload is caught (line 1312) and the iteration goes on to the tick
LoopVideoStep ==
    /\ app = "scene_by_scene"
    /\ pc = "loop_video"
    /\ IF ~StillPlaying
       THEN /\ pc' = "returned"
            /\ UNCHANGED <<wall_clock_ms, position_ms, commands, current_speed, tick,
                           exception, loop_duration_ms>>
       ELSE \E t \in LoopClockSamples, rebuilt \in BOOLEAN, sync_check_due \in BOOLEAN :
            LET w == get_wall_clock_ms(t)
                duration_ms == IF rebuilt /\ loop_meta # None
                               THEN IntMs(Get(Val(loop_meta), "total_duration", Sec(60)))
                               ELSE loop_duration_ms
                reload_cmds == IF ~rebuilt THEN <<>> ELSE <<LoadFile("loop.mp4")>>
            IN  /\ wall_clock_ms' = Some(w)
                /\ loop_duration_ms' = duration_ms
                /\ IF rebuilt /\ duration_ms # 0
                   THEN LET expected_ms == calculate_expected_position(w, duration_ms)
                        IN  /\ pc' = "loop_video"
                            /\ commands' = reload_cmds \o <<Seek(MsAsSec(expected_ms)),
                                                            SetSpeed(SPEED_NORMAL)>>
                            /\ current_speed' = SPEED_NORMAL
                            /\ position_ms' = Some(expected_ms)
                            /\ tick' = None
                            /\ UNCHANGED exception
                   ELSE IF ~sync_check_due
                   THEN /\ pc' = "loop_video"
                        /\ commands' = reload_cmds
                        /\ tick' = None
                        /\ UNCHANGED <<position_ms, current_speed, exception>>
                   ELSE \E reported \in IF Val(mpv).started THEN {0, 1, 2} ELSE {0} :
                        IF reported = 0
                        THEN /\ pc' = "loop_video"
                             /\ commands' = reload_cmds
                             /\ tick' = None
                             /\ UNCHANGED <<position_ms, current_speed, exception>>
                        ELSE IF duration_ms = 0
                        THEN /\ Crash(ZeroDivisionError)
                             /\ commands' = reload_cmds
                             /\ tick' = None
                             /\ UNCHANGED <<position_ms, current_speed>>
                        ELSE
                        LET expected_ms == calculate_expected_position(w, duration_ms)
                            actual_sec == IF reported = 1 THEN Some(MsAsSec(expected_ms))
                                          ELSE Some(MsAsSec(expected_ms + 50))
                            result == loop_video_sync_tick(duration_ms, expected_ms,
                                                           actual_sec, current_speed)
                        IN  /\ pc' = "loop_video"
                            /\ commands' = reload_cmds \o result.cmds
                            /\ current_speed' = result.speed
                            /\ position_ms' = Some(expected_ms)
                            /\ tick' = Some([duration_ms |-> duration_ms,
                                             expected_ms |-> expected_ms,
                                             seek_expected_ms |-> expected_ms,
                                             actual_sec |-> actual_sec,
                                             speed_before |-> current_speed,
                                             result |-> result])
                            /\ UNCHANGED exception
    /\ UNCHANGED <<app, servicesVars, gateVars, peer, swapVars, scenes, cycle_duration_ms,
                   position_in_cycle_ms, scene_at, prev_tick, now, scheduleVars, running,
                   current_mode, scenes_file, scenes_mtime, media_files, x_display, mpv,
                   feh_process, feh_images, screen_ops, current_scene_index, last_scenes_mtime, content_changed,
                   last_schedule_check, loaded_scenes>>

ManagerAlive == app = "scene_by_scene" /\ pc \notin {"idle", "exited", "crashed"}

\* the device is registered or unregistered, linked to a screen or unlinked
GateChanges ==
    /\ ManagerAlive
    /\ \E r \in BOOLEAN, l \in BOOLEAN :
        /\ <<r, l>> # <<registered, screen_linked>>
        /\ registered' = r
        /\ screen_linked' = l
    /\ UNCHANGED <<app, servicesVars, loop_mp4, loop_meta, peer, swapVars, timelineVars, syncVars, now,
                   scheduleVars, loopVars>>

\* a content update adds a scheduled scene to a playlist that had none: the
\* content manager rewrites scenes.json
ScheduledSceneAdded ==
    /\ ManagerAlive
    /\ scenes_mtime < MaxMtime
    /\ scenes_file = Some(<<SceneA>>)
    /\ scenes_file' = Some(<<SceneA, SceneB>>)
    /\ scenes_mtime' = scenes_mtime + 1
    /\ UNCHANGED <<app, servicesVars, gateVars, peer, swapVars, timelineVars, syncVars, now,
                   scheduleVars, pc, running, current_mode, media_files, x_display, mpv,
                   feh_process, feh_images, screen_ops, current_scene_index,
                   last_scenes_mtime, content_changed, last_schedule_check, loaded_scenes, commands>>

\* the steps the manager takes by itself
ManagerStep ==
    \/ Run
    \/ Enter
    \/ InitialWait
    \/ LoopTop
    \/ NoContentRecheck
    \/ PlayStep
    \/ LoopVideoEnter
    \/ LoopVideoStep

NextRun ==
    \/ ManagerStep
    \/ GateChanges
    \/ ScheduledSceneAdded
    \/ TimePasses
    \/ SignalHandler
    \/ SignalInKillFeh

\* the manager keeps running while it has a step to take
SpecRun == InitRun /\ [][NextRun]_vars /\ WF_vars(ManagerStep)

(***************************************************************************)
(* InternetConnectivityMonitor (services_v2/common/network.py)             *)
(***************************************************************************)
\* the failures_required_for_offline values the monitor is constructed with
\* (jam_ble_state_manager.py line 119 passes 5, which is also the default)
FailuresRequiredSamples == {1, 2, 5}

\* what check_internet_connectivity returns: (True, method) or (False, 'none')
ConnectivitySamples ==
    {[has_internet |-> TRUE, method |-> m] :
        m \in {"jam_backend", "cloudflare_dns", "google_dns"}}
    \cup {[has_internet |-> FALSE, method |-> "none"]}

\* the offline test with the threshold ignored: offline at the first failure
goes_offline_at_first_failure(is_online, consecutive_failures, failures_required) ==
    is_online /\ consecutive_failures >= 1

\* line 779: the test that turns an online monitor offline
goes_offline(is_online, consecutive_failures, failures_required) ==
    is_online /\ consecutive_failures >= failures_required

\* lines 747-788: InternetConnectivityMonitor.check, as the new monitor state
monitor_check(m, found) ==
    IF found.has_internet
    THEN [m EXCEPT !.last_success_method = found.method,
                   !.consecutive_failures = 0,
                   !.is_online = TRUE,
                   !.state_changed = ~m.is_online]
    ELSE LET failures == m.consecutive_failures + 1
             offline == goes_offline(m.is_online, failures, m.failures_required)
         IN  [m EXCEPT !.consecutive_failures = failures,
                       !.is_online = IF offline THEN FALSE ELSE m.is_online,
                       !.state_changed = offline]

\* a reset that clears the counters and keeps the online state
monitor_reset_counters_only(m, assume_online) ==
    [m EXCEPT !.consecutive_failures = 0,
              !.state_changed = FALSE,
              !.last_success_method = "none"]

\* lines 790-800: InternetConnectivityMonitor.reset
monitor_reset(m, assume_online) ==
    [m EXCEPT !.consecutive_failures = 0,
              !.is_online = assume_online,
              !.state_changed = FALSE,
              !.last_success_method = "none"]

InitMonitor ==
    /\ app = "connectivity_monitor"
    /\ LoopIdle
    /\ TimelineIdle
    /\ SyncIdle
    /\ ScheduleIdle
    /\ BleIdle
    /\ HealthIdle
    /\ WaitIdle
    /\ PlayerIdle
    /\ IpcIdle
    /\ monitor \in {NewMonitor(r) : r \in FailuresRequiredSamples}
    /\ last_check = None

\* one call of check(); the value it returns is the new is_online
Check ==
    /\ app = "connectivity_monitor"
    /\ \E found \in ConnectivitySamples :
        /\ ~found.has_internet => monitor.consecutive_failures < MaxConsecutiveFailures
        /\ monitor' = monitor_check(monitor, found)
        /\ last_check' = Some([has_internet |-> found.has_internet,
                               was_online |-> monitor.is_online,
                               failures_before |-> monitor.consecutive_failures,
                               returned |-> monitor'.is_online])
    /\ UNCHANGED <<app, bleVars, healthVars, waitVars, playerVars, ipcVars, gateVars, peer, swapVars, timelineVars, syncVars, now,
                   scheduleVars, loopVars>>

\* one call of reset()
Reset ==
    /\ app = "connectivity_monitor"
    /\ \E assume_online \in BOOLEAN :
        monitor' = monitor_reset(monitor, assume_online)
    /\ last_check' = None
    /\ UNCHANGED <<app, bleVars, healthVars, waitVars, playerVars, ipcVars, gateVars, peer, swapVars, timelineVars, syncVars, now,
                   scheduleVars, loopVars>>

NextMonitor ==
    \/ Check
    \/ Reset

SpecMonitor == InitMonitor /\ [][NextMonitor]_vars

(***************************************************************************)
(* BLEStateManager (services_v2/jam_ble_state_manager.py)                  *)
(***************************************************************************)
NM_STATE_CONNECTED_LOCAL == 50

INTERNET_CHECK_FAILURES_FOR_OFFLINE == 5

BLE_PROVISIONING_SERVICE == "jam-ble-provisioning.service"

HEARTBEAT_SERVICE == "jam-heartbeat.service"

\* NetworkManager states followed: CONNECTING, CONNECTED_LOCAL, CONNECTED_GLOBAL
NmStateSamples == {40, 50, 70}

\* lines 204-217: _nm_has_connection
nm_has_connection(state) == state >= NM_STATE_CONNECTED_LOCAL

\* a call manage_service(service, should_run)
ManageService(service, should_run) == [service |-> service, should_run |-> should_run]

\* BLE decided on connectivity alone
should_ble_run_when_offline_only(is_online, is_registered) == ~is_online

\* lines 450-473: _should_ble_run, with what is_device_registered() returns
should_ble_run(is_online, is_registered) ==
    IF ~is_online THEN TRUE
    ELSE IF ~is_registered THEN TRUE
    ELSE FALSE

\* lines 505-549: the manage_service calls of _apply_ble_state
apply_ble_state(is_online, is_registered) ==
    LET should_run == should_ble_run(is_online, is_registered)
    IN  (IF is_online /\ ~should_run THEN <<ManageService(HEARTBEAT_SERVICE, TRUE)>>
         ELSE <<>>)
        \o <<ManageService(BLE_PROVISIONING_SERVICE, should_run)>>

\* system.py lines 382-409: whether jam-ble-provisioning is active after the
\* requests of a handler
ble_active_after(requests, active) ==
    LET ble == SelectSeq(requests, LAMBDA r : r.service = BLE_PROVISIONING_SERVICE)
    IN  IF ble = <<>> THEN active ELSE ble[Len(ble)].should_run

\* what a handler leaves behind: the monitor, _last_connected_state, the
\* manage_service calls, the argument of _apply_ble_state if it was called
Handled(m, lcs, requests, applied_arg) ==
    [monitor |-> m, last_connected_state |-> lcs, requests |-> requests,
     applied |-> applied_arg]

\* lines 282-308: _apply_online_state
apply_online_state(m, lcs, is_registered) ==
    IF lcs = Some(TRUE)
    THEN Handled(m, lcs, <<>>, None)
    ELSE Handled(m, Some(TRUE), apply_ble_state(TRUE, is_registered),
                 Some([is_online |-> TRUE, registered |-> is_registered]))

\* lines 328-338 and 379-389: the branch taken when check() changed the state
on_state_flip(m, lcs, is_registered) ==
    IF m.is_online
    THEN apply_online_state(m, lcs, is_registered)
    ELSE Handled(m, Some(FALSE), apply_ble_state(FALSE, is_registered),
                 Some([is_online |-> FALSE, registered |-> is_registered]))

\* lines 310-356: _verify_and_apply_state after check() returned monitor m
verify_and_apply_state(m, lcs, is_registered) ==
    IF m.state_changed THEN on_state_flip(m, lcs, is_registered)
    ELSE Handled(m, lcs, <<>>, None)

\* lines 377-396: _periodic_connectivity_check after check() returned monitor m
periodic_connectivity_check(m, lcs, is_registered) ==
    IF m.state_changed THEN on_state_flip(m, lcs, is_registered)
    ELSE IF m.is_online /\ ~should_ble_run(m.is_online, is_registered)
    THEN Handled(m, lcs, <<ManageService(BLE_PROVISIONING_SERVICE, FALSE)>>, None)
    ELSE Handled(m, lcs, <<>>, None)

\* lines 259-280: _apply_offline_state
apply_offline_state(m, lcs, is_registered) ==
    LET reset == monitor_reset(m, FALSE)
    IN  IF lcs = Some(FALSE)
        THEN Handled(reset, lcs, <<>>, None)
        ELSE Handled(reset, Some(FALSE), apply_ble_state(FALSE, is_registered),
                     Some([is_online |-> FALSE, registered |-> is_registered]))

\* lines 551-608: check_initial_state; any_success says whether one of the up
\* to three raw connectivity checks succeeded
check_initial_state(m, state, any_success, is_registered) ==
    IF nm_has_connection(state) /\ any_success
    THEN Handled(monitor_reset(m, TRUE), Some(TRUE), apply_ble_state(TRUE, is_registered),
                 Some([is_online |-> TRUE, registered |-> is_registered]))
    ELSE Handled(monitor_reset(m, FALSE), Some(FALSE),
                 apply_ble_state(FALSE, is_registered),
                 Some([is_online |-> FALSE, registered |-> is_registered]))

\* the state a handler leaves, common to all handlers
Leave(h) ==
    /\ monitor' = h.monitor
    /\ last_connected_state' = h.last_connected_state
    /\ service_requests' = h.requests
    /\ applied' = h.applied
    /\ internet_verified_flag' = IF h.applied = None THEN internet_verified_flag
                                 ELSE Val(h.applied).is_online
    /\ ble_active' = ble_active_after(h.requests, ble_active)

\* the connectivity results a check() of the monitor may meet
CheckSamples ==
    {f \in ConnectivitySamples :
        f.has_internet \/ monitor.consecutive_failures < MaxConsecutiveFailures}

\* the record of a check() kept in last_check
Checked(found, m) ==
    Some([has_internet |-> found.has_internet,
          was_online |-> m.is_online,
          failures_before |-> m.consecutive_failures,
          returned |-> monitor_check(m, found).is_online])

InitBle ==
    /\ app = "ble_state_manager"
    /\ LoopIdle
    /\ TimelineIdle
    /\ SyncIdle
    /\ ScheduleIdle
    /\ HealthIdle
    /\ WaitIdle
    /\ PlayerIdle
    /\ IpcIdle
    /\ monitor = NewMonitor(INTERNET_CHECK_FAILURES_FOR_OFFLINE)
    /\ last_check = None
    /\ ble_pc = "init"
    /\ nm_state \in NmStateSamples
    /\ nm_signals = <<>>
    /\ pending_action = "none"
    /\ last_connected_state = None
    /\ service_requests = <<>>
    /\ applied = None
    /\ internet_verified_flag \in BOOLEAN
    /\ ble_active \in BOOLEAN

BleUnchanged ==
    UNCHANGED <<app, healthVars, waitVars, playerVars, ipcVars, loop_mp4, loop_meta, screen_linked, peer, swapVars, timelineVars,
                syncVars, now, scheduleVars, loopVars>>

\* run(), lines 610-642: check_initial_state before the main loop starts
CheckInitialState ==
    /\ app = "ble_state_manager"
    /\ ble_pc = "init"
    /\ \E any_success \in BOOLEAN :
        Leave(check_initial_state(monitor, nm_state, any_success, registered))
    /\ ble_pc' = "monitoring"
    /\ last_check' = None
    /\ UNCHANGED <<nm_state, nm_signals, pending_action, registered>>
    /\ BleUnchanged

\* NetworkManager changes its state and emits PropertiesChanged
NmStateChanges ==
    /\ app = "ble_state_manager"
    /\ Len(nm_signals) < MaxPendingSignals
    /\ \E state \in NmStateSamples \ {nm_state} :
        /\ nm_state' = state
        /\ nm_signals' = Append(nm_signals, state)
    /\ service_requests' = <<>>
    /\ applied' = None
    /\ UNCHANGED <<monitor, last_check, ble_pc, pending_action, last_connected_state,
                   internet_verified_flag, ble_active, registered>>
    /\ BleUnchanged

\* the device is registered through the mobile app, or its registration removed
RegistrationChanges ==
    /\ app = "ble_state_manager"
    /\ registered' = ~registered
    /\ service_requests' = <<>>
    /\ applied' = None
    /\ UNCHANGED <<monitor, last_check, ble_pc, nm_state, nm_signals, pending_action,
                   last_connected_state, internet_verified_flag, ble_active>>
    /\ BleUnchanged

\* lines 410-430 and 219-257: _on_properties_changed / _on_state_changed
OnStateChanged ==
    /\ app = "ble_state_manager"
    /\ ble_pc = "monitoring"
    /\ nm_signals # <<>>
    /\ nm_signals' = Tail(nm_signals)
    /\ pending_action' = IF ~nm_has_connection(Head(nm_signals))
                         THEN "_apply_offline_state"
                         ELSE "_verify_and_apply_state"
    /\ service_requests' = <<>>
    /\ applied' = None
    /\ UNCHANGED <<monitor, last_check, ble_pc, nm_state, last_connected_state,
                   internet_verified_flag, ble_active, registered>>
    /\ BleUnchanged

\* the debounce timeout fires _apply_offline_state
ApplyOfflineState ==
    /\ app = "ble_state_manager"
    /\ ble_pc = "monitoring"
    /\ pending_action = "_apply_offline_state"
    /\ pending_action' = "none"
    /\ Leave(apply_offline_state(monitor, last_connected_state, registered))
    /\ last_check' = None
    /\ UNCHANGED <<ble_pc, nm_state, nm_signals, registered>>
    /\ BleUnchanged

\* the debounce timeout fires _verify_and_apply_state
VerifyAndApplyState ==
    /\ app = "ble_state_manager"
    /\ ble_pc = "monitoring"
    /\ pending_action = "_verify_and_apply_state"
    /\ pending_action' = "none"
    /\ \E found \in CheckSamples :
        /\ Leave(verify_and_apply_state(monitor_check(monitor, found),
                                        last_connected_state, registered))
        /\ last_check' = Checked(found, monitor)
    /\ UNCHANGED <<ble_pc, nm_state, nm_signals, registered>>
    /\ BleUnchanged

\* the 30 s timer fires _periodic_connectivity_check (lines 358-398)
PeriodicConnectivityCheck ==
    /\ app = "ble_state_manager"
    /\ ble_pc = "monitoring"
    /\ IF ~nm_has_connection(nm_state)
       THEN /\ service_requests' = <<>>
            /\ applied' = None
            /\ UNCHANGED <<monitor, last_check, last_connected_state,
                           internet_verified_flag, ble_active>>
       ELSE \E found \in CheckSamples :
            /\ Leave(periodic_connectivity_check(monitor_check(monitor, found),
                                                 last_connected_state, registered))
            /\ last_check' = Checked(found, monitor)
    /\ UNCHANGED <<ble_pc, nm_state, nm_signals, pending_action, registered>>
    /\ BleUnchanged

NextBle ==
    \/ CheckInitialState
    \/ NmStateChanges
    \/ RegistrationChanges
    \/ OnStateChanged
    \/ ApplyOfflineState
    \/ VerifyAndApplyState
    \/ PeriodicConnectivityCheck

SpecBle == InitBle /\ [][NextBle]_vars

(***************************************************************************)
(* HealthMonitor (services_v2/jam_health_monitor.py)                       *)
(***************************************************************************)
MAX_FAILURES_IN_WINDOW == 3

FAILURE_WINDOW_MINUTES == 5

ALWAYS_RUNNING_SERVICES ==
    {"jam-ble-state-manager.service", "jam-content-manager.service",
     "jam-player-display.service"}

\* the members of MONITORED_SERVICES followed: one that is restarted and one
\* that is only watched
HealthServices == {"jam-player-display.service", "jam-ble-provisioning.service"}

\* `systemctl is-active` answers followed (a None from get_service_status is
\* turned into "error", which is handled as "inactive" is)
ServiceStatusSamples == {"active", "inactive", "failed"}

\* lines 142-153: a new ServiceFailureTracker
NewTracker == [failure_times |-> <<>>, gave_up |-> FALSE, gave_up_at |-> None]

\* the threshold test giving up one failure early
over_threshold_at_max(failure_count) == failure_count >= MAX_FAILURES_IN_WINDOW

\* line 172: the threshold test of record_failure
over_threshold(failure_count) == failure_count > MAX_FAILURES_IN_WINDOW

\* lines 165-169: the failure times kept by record_failure at time t, the new
\* one included
recorded_times(tracker, t) ==
    Append(SelectSeq(tracker.failure_times, LAMBDA x : x > t - FAILURE_WINDOW_MINUTES), t)

\* lines 155-177: ServiceFailureTracker.record_failure, the tracker it leaves
record_failure(tracker, t) ==
    LET times == recorded_times(tracker, t)
    IN  IF over_threshold(Len(times))
        THEN [failure_times |-> times, gave_up |-> TRUE, gave_up_at |-> Some(t)]
        ELSE [tracker EXCEPT !.failure_times = times]

\* lines 179-183: ServiceFailureTracker.get_failure_count
get_failure_count(tracker, t) ==
    Len(SelectSeq(tracker.failure_times, LAMBDA x : x > t - FAILURE_WINDOW_MINUTES))

\* lines 299-307: _should_attempt_restart
should_attempt_restart(service) == service \in ALWAYS_RUNNING_SERVICES

\* what check_services did about one service
Finding(at, checked, failure, restart_attempted, reported, delivered, failure_count) ==
    [at |-> at, checked |-> checked, failure |-> failure,
     restart_attempted |-> restart_attempted, reported |-> reported,
     delivered |-> delivered, failure_count |-> failure_count]

\* a service whose tracker has given up is passed over (lines 321-323)
Skipped(t) == Finding(t, FALSE, FALSE, FALSE, "none", FALSE, 0)

\* lines 318-392: the body of the loop of check_services for one service
check_service(service, tracker, status, has_internet, t) ==
    IF tracker.gave_up THEN Skipped(t)
    ELSE IF status = "active" THEN Finding(t, TRUE, FALSE, FALSE, "none", FALSE, 0)
    ELSE IF ~should_attempt_restart(service)
    THEN IF status = "failed"
         THEN Finding(t, TRUE, TRUE, FALSE, "HIGH", has_internet, 0)
         ELSE Finding(t, TRUE, FALSE, FALSE, "none", FALSE, 0)
    ELSE LET after == record_failure(tracker, t)
             should_restart == ~over_threshold(Len(recorded_times(tracker, t)))
             failure_count == get_failure_count(after, t)
         IN  IF should_restart
             THEN Finding(t, TRUE, TRUE, TRUE, "HIGH", has_internet, failure_count)
             ELSE Finding(t, TRUE, TRUE, FALSE, "CRITICAL", has_internet, failure_count)

InitHealth ==
    /\ app = "health_monitor"
    /\ LoopIdle
    /\ TimelineIdle
    /\ SyncIdle
    /\ ScheduleIdle
    /\ MonitorIdle
    /\ BleIdle
    /\ WaitIdle
    /\ PlayerIdle
    /\ IpcIdle
    /\ health_now = 0
    /\ trackers = [s \in HealthServices |-> NewTracker]
    /\ findings = [s \in HealthServices |-> Finding(0, FALSE, FALSE, FALSE, "none", FALSE, 0)]
    /\ failure_log = [s \in HealthServices |-> <<>>]

HealthUnchanged ==
    UNCHANGED <<app, monitorVars, bleVars, waitVars, playerVars, ipcVars, gateVars, peer, swapVars, timelineVars,
                syncVars, now, scheduleVars, loopVars>>

\* one call of check_services (lines 309-392)
CheckServices ==
    /\ app = "health_monitor"
    /\ \E status \in [HealthServices -> ServiceStatusSamples], has_internet \in BOOLEAN :
        LET found == [s \in HealthServices |->
                         check_service(s, trackers[s], status[s], has_internet, health_now)]
        IN  /\ \A s \in HealthServices :
                found[s].failure =>
                    Len(failure_log[s]) < (IF should_attempt_restart(s)
                                           THEN MaxFailuresLogged
                                           ELSE MaxWatchedFailures)
            /\ findings' = found
            /\ trackers' = [s \in HealthServices |->
                               IF found[s].failure
                               THEN record_failure(trackers[s], health_now)
                               ELSE trackers[s]]
            /\ failure_log' = [s \in HealthServices |->
                                  IF found[s].failure
                                  THEN Append(failure_log[s], health_now)
                                  ELSE failure_log[s]]
    /\ UNCHANGED health_now
    /\ HealthUnchanged

\* time passes between two checks (the loop sleeps CHECK_INTERVAL_SECONDS)
HealthTimePasses ==
    /\ app = "health_monitor"
    /\ \E minutes \in {1, FAILURE_WINDOW_MINUTES} :
        /\ health_now + minutes <= MaxHealthClock
        /\ health_now' = health_now + minutes
    /\ UNCHANGED <<trackers, findings, failure_log>>
    /\ HealthUnchanged

NextHealth ==
    \/ CheckServices
    \/ HealthTimePasses

SpecHealth == InitHealth /\ [][NextHealth]_vars

(***************************************************************************)
(* Claims on the timeline mapper                                           *)
(***************************************************************************)
\* whether p is the remainder of w modulo c, stated without the % of the model
IsRemainder(p, w, c) ==
    /\ 0 <= p
    /\ p < c
    /\ p <= w
    /\ \E q \in {(w - p) \div c} : q * c + p = w

\* C1: for every cycle duration > 0 and wall clock >= 0 the expected position
\* of both timeline mappers is the wall clock modulo the cycle duration and
\* lies in [0, cycle duration)
C1_ModuloCorrectness ==
    /\ (app = "display" /\ position_in_cycle_ms # None /\ cycle_duration_ms > 0
            /\ Val(wall_clock_ms) >= 0)
        => IsRemainder(Val(position_in_cycle_ms), Val(wall_clock_ms), cycle_duration_ms)
    /\ (app = "media_player" /\ position_ms # None /\ loop_duration_ms > 0
            /\ Val(wall_clock_ms) >= 0)
        => IsRemainder(Val(position_ms), Val(wall_clock_ms), loop_duration_ms)

\* a wall clock beyond one cycle has been mapped into the cycle
C1_Witness ==
    /\ app = "display"
    /\ cycle_duration_ms = 30000
    /\ wall_clock_ms = Some(85000)
    /\ position_in_cycle_ms = Some(25000)

\* sum of the durations of the first n scenes
DurationBefore(ss, n) == calculate_cycle_duration_ms(SubSeq(ss, 1, n))

\* scene i (1-based) holds position p at offset p - DurationBefore(ss, i - 1)
SceneHolds(ss, i, p) ==
    /\ 0 <= p - DurationBefore(ss, i - 1)
    /\ p - DurationBefore(ss, i - 1) < scene_duration_in_ms(ss[i])

\* C2: for a position 0 <= p < cycle duration, _get_scene_at_position returns
\* the one (scene_index, offset) with offset < duration(scene_index) and
\* durations before scene_index + offset = p
C2_SceneMappingConsistency ==
    (app = "display" /\ scene_at # None)
    => LET p == Val(position_in_cycle_ms)
           i == scene_at[1] + 1
           offset == scene_at[2]
       IN  (0 <= p /\ p < cycle_duration_ms)
           => /\ i \in 1 .. Len(scenes)
              /\ 0 <= offset
              /\ offset < scene_duration_in_ms(scenes[i])
              /\ DurationBefore(scenes, i - 1) + offset = p
              /\ \A j \in 1 .. Len(scenes) : SceneHolds(scenes, j, p) => j = i

\* playlist [A:10s, B:20s] at 25 s: scene B, 15 s into it
C2_Witness ==
    /\ app = "display"
    /\ scenes = <<SceneOfDuration(Sec(10)), SceneOfDuration(Sec(20))>>
    /\ position_in_cycle_ms = Some(25000)
    /\ scene_at = <<1, 15000>>

(***************************************************************************)
(* Claims on the sync controller                                           *)
(***************************************************************************)
\* the last tick read a position and computed an offset
TickHasOffset == tick # None /\ Val(tick).result.offset # None

TickOffset == Val(Val(tick).result.offset)

TickActualMs == IntMs(Val(Val(tick).actual_sec))

\* C3: for 0 <= actual, expected < duration the wrap-corrected offset lies in
\* [-duration/2, duration/2] and is congruent to actual - expected modulo
\* the duration
C3_WrapAroundOffsetBound ==
    (/\ TickHasOffset
     /\ 0 <= TickActualMs /\ TickActualMs < Val(tick).duration_ms
     /\ 0 <= Val(tick).expected_ms /\ Val(tick).expected_ms < Val(tick).duration_ms)
    => /\ -Val(tick).duration_ms <= 2 * TickOffset
       /\ 2 * TickOffset <= Val(tick).duration_ms
       /\ (TickOffset - (TickActualMs - Val(tick).expected_ms)) % Val(tick).duration_ms = 0

\* actual 0.4 s against expected 0.1 s in a 1 s unit: offset +300 ms, no wrap;
\* and the state is one where a wrap did happen on the tick before
C3_Witness ==
    /\ TickHasOffset
    /\ Val(tick).duration_ms = 1000
    /\ TickActualMs = 400
    /\ TickOffset = 300
    /\ prev_tick # None
    /\ Val(prev_tick).offset = Some(-499)

\* the speed the claim's table gives for an offset of at most 500 ms
TableSpeed(offset_ms) ==
    IF Abs(offset_ms) <= 10 THEN 100
    ELSE IF Abs(offset_ms) <= 30 THEN (IF offset_ms > 0 THEN 99 ELSE 101)
    ELSE IF Abs(offset_ms) <= 100 THEN (IF offset_ms > 0 THEN 97 ELSE 103)
    ELSE (IF offset_ms > 0 THEN 95 ELSE 105)

\* C4: on a tick with a reported position and |offset| <= 500 ms the speed
\* targeted depends on the offset only (1.00 / 0.99,1.01 / 0.97,1.03 /
\* 0.95,1.05 by band); a positive offset selects the slow value, a negative
\* one the fast value
C4_SpeedIsFunctionOfOffset ==
    (TickHasOffset /\ Abs(TickOffset) <= 500)
    => /\ current_speed = TableSpeed(TickOffset)
       /\ Val(tick).result.speed = current_speed
       /\ (TickOffset > 10 => current_speed < 100)
       /\ (TickOffset < -10 => current_speed > 100)

\* ahead by 50 ms right after a tick that had sped the player up to 1.05
C4_Witness ==
    /\ TickHasOffset
    /\ TickOffset = 50
    /\ Val(tick).speed_before = SPEED_AGGRESSIVE_FAST
    /\ current_speed = SPEED_MODERATE_SLOW

\* C5: a tick seeks iff |offset| > 500 ms; the seek targets the expected
\* position and is followed at once by speed 1.00; no tick with
\* |offset| <= 500 ms (and no skipped tick) seeks
C5_SeekIffLargeOffset ==
    tick # None
    => LET r == Val(tick).result
       IN  /\ HasSeek(r.cmds) <=> (r.offset # None /\ Abs(Val(r.offset)) > 500)
           /\ HasSeek(r.cmds)
              => /\ r.cmds = <<Seek(MsAsSec(Val(tick).seek_expected_ms)), SetSpeed(100)>>
                 /\ current_speed = 100

\* an emergency seek issued while the player ran at a corrected speed
C5_Witness ==
    /\ TickHasOffset
    /\ TickOffset = 501
    /\ HasSeek(Val(tick).result.cmds)
    /\ Val(tick).speed_before = SPEED_GENTLE_SLOW
    /\ current_speed = SPEED_NORMAL

\* both offsets on the same side (0 is on both)
SameSign(a, b) == (a >= 0 /\ b >= 0) \/ (a <= 0 /\ b <= 0)

\* C6: for a fixed sign of the offset a larger |offset| never selects a less
\* aggressive tier (none < gentle < moderate < aggressive < emergency seek)
C6_TierMonotonicity ==
    (TickHasOffset /\ prev_tick # None /\ Val(prev_tick).offset # None)
    => LET before == Val(Val(prev_tick).offset)
       IN  SameSign(before, TickOffset)
           => /\ Abs(before) <= Abs(TickOffset)
                 => Val(prev_tick).tier <= Tier(Val(tick).result)
              /\ Abs(TickOffset) <= Abs(before)
                 => Tier(Val(tick).result) <= Val(prev_tick).tier

\* a moderate tick (+50 ms) followed by an aggressive one (+200 ms)
C6_Witness ==
    /\ TickHasOffset
    /\ prev_tick = Some([offset |-> Some(50), tier |-> 2])
    /\ TickOffset = 200
    /\ Tier(Val(tick).result) = 3

\* C7: with offset 0 on two consecutive ticks the second tick changes no
\* speed and sends neither a seek nor a speed command
C7_IdempotentAtEquilibrium ==
    (/\ TickHasOffset /\ TickOffset = 0
     /\ prev_tick # None /\ Val(prev_tick).offset = Some(0))
    => /\ Val(tick).result.cmds = <<>>
       /\ current_speed = Val(tick).speed_before

\* two consecutive ticks at offset 0 of the 30 s unit
C7_Witness ==
    /\ TickHasOffset /\ TickOffset = 0
    /\ Val(tick).duration_ms = 30000
    /\ prev_tick = Some([offset |-> Some(0), tier |-> 0])

\* the tick of scenario 2: actual 29.9 s, expected 0.1 s, duration 30 s
Scenario2 ==
    /\ tick # None
    /\ Val(tick).duration_ms = 30000
    /\ Val(tick).expected_ms = 100
    /\ Val(tick).actual_sec = Some(MsAsSec(29900))

\* C8 as stated: scenario 2 gives offset -200 ms, the gentle tier and 1.01x
C8_Scenario2Gentle ==
    Scenario2
    => /\ Val(tick).result.offset = Some(-200)
       /\ Tier(Val(tick).result) = 1
       /\ current_speed = 101

\* C8 amended: scenario 2 gives the wrapped offset -200 ms, which is in the
\* 100-500 ms band: the aggressive tier, speed 1.05x (behind, speed up)
C8_Scenario2Aggressive ==
    Scenario2
    => /\ Val(tick).result.offset = Some(-200)
       /\ ~HasSeek(Val(tick).result.cmds)
       /\ Tier(Val(tick).result) = 3
       /\ current_speed = SPEED_AGGRESSIVE_FAST
       /\ Val(tick).speed_before # SPEED_AGGRESSIVE_FAST
          => Val(tick).result.cmds = <<SetSpeed(SPEED_AGGRESSIVE_FAST)>>

\* scenario 2 met at normal speed: one command, set_speed(1.05)
C8_Witness ==
    /\ Scenario2
    /\ Val(tick).speed_before = SPEED_NORMAL
    /\ Val(tick).result.cmds = <<SetSpeed(105)>>

(***************************************************************************)
(* Claims on the schedule predicate                                        *)
(***************************************************************************)
DayNames == <<"MONDAY", "TUESDAY", "WEDNESDAY", "THURSDAY", "FRIDAY", "SATURDAY", "SUNDAY">>

\* the schedule entries of the examined scene
SceneEntries == IF "days_scheduled" \in DOMAIN schedule_scene
                THEN schedule_scene.days_scheduled ELSE <<>>

DayOf(entry) ==
    IF entry.dayOfWeek.kind = "str" THEN entry.dayOfWeek.str ELSE entry.dayOfWeek.dict.value

\* the indices of the entries for the current weekday
TodayEntries ==
    {k \in 1 .. Len(SceneEntries) : DayOf(SceneEntries[k]) = DayNames[now.weekday + 1]}

\* the entry that decides: the first one for the current weekday
TodayEntry == SceneEntries[CHOOSE k \in TodayEntries : \A j \in TodayEntries : k <= j]

\* "HH:MM" with HH in 0..23 and MM in 0..59
WellFormed(time_str) ==
    Len(time_str) = 2 /\ time_str[1] \in 0 .. 23 /\ time_str[2] \in 0 .. 59

SecondsOf(time_str) == 3600 * time_str[1] + 60 * time_str[2]

FridayNineToFive ==
    [id |-> "S",
     days_scheduled |-> <<[dayOfWeek |-> [kind |-> "str", str |-> "FRIDAY"],
                           startTime |-> <<9, 0>>, endTime |-> <<17, 0>>]>>]

\* C10: is_scene_scheduled_now is true for a scene without schedule entries;
\* false without an entry for the current weekday; with an entry for the
\* current weekday (the first such entry) it is true all day when the entry
\* has no start/end, and true exactly when start <= now <= end when it has
\* both with start <= end. FRIDAY 09:00-17:00 is active on Friday 12:00 and
\* inactive on Friday 20:00 and Saturday 12:00
C10_ScheduleFilter ==
    scheduled_now # None
    => /\ SceneEntries = <<>> => Val(scheduled_now) = TRUE
       /\ (SceneEntries # <<>> /\ TodayEntries = {}) => Val(scheduled_now) = FALSE
       /\ (TodayEntries # {} /\ TodayEntry.startTime = <<>> /\ TodayEntry.endTime = <<>>)
          => Val(scheduled_now) = TRUE
       /\ (/\ TodayEntries # {}
           /\ WellFormed(TodayEntry.startTime) /\ WellFormed(TodayEntry.endTime)
           /\ SecondsOf(TodayEntry.startTime) <= SecondsOf(TodayEntry.endTime))
          => Val(scheduled_now) = (/\ SecondsOf(TodayEntry.startTime) <= now.time
                                   /\ now.time <= SecondsOf(TodayEntry.endTime))
       /\ schedule_scene = FridayNineToFive
          => /\ now = [weekday |-> 4, time |-> 43200] => Val(scheduled_now) = TRUE
             /\ now = [weekday |-> 4, time |-> 72000] => Val(scheduled_now) = FALSE
             /\ now = [weekday |-> 5, time |-> 43200] => Val(scheduled_now) = FALSE

\* FRIDAY 09:00-17:00 found inactive on Friday at 20:00
C10_Witness ==
    /\ schedule_scene = FridayNineToFive
    /\ now = [weekday |-> 4, time |-> 72000]
    /\ scheduled_now = Some(FALSE)

(***************************************************************************)
(* Claims on the playback loop                                             *)
(***************************************************************************)
\* the manager is inside the loop and its latest load found nothing to play
ActivePlaylistFoundEmpty ==
    /\ app = "scene_by_scene"
    /\ pc \in {"initial_wait", "loop_top", "no_content_wait", "play", "crashed"}
    /\ loaded_scenes = Some(<<>>)

\* C9: when the load of the playlist finds every scene scheduled off (the
\* active playlist is empty), the loop is in the no-content state: the
\* in-memory playlist is empty, the player is stopped and dropped, the
\* no-scheduled-content screen is on display (whenever feh can be launched),
\* no expected position has been computed in the iteration, and no exception
\* has ended the loop
C9_NoContentState ==
    ActivePlaylistFoundEmpty
    => /\ scenes = <<>>
       /\ mpv = None
       /\ x_display => /\ feh_process = Some("jam_display_no_schedule")
                       /\ "jam_display_no_schedule" \in feh_images
       /\ wall_clock_ms = None
       /\ position_in_cycle_ms = None
       /\ scene_at = None
       /\ commands = <<>>
       /\ exception = NoException
       /\ pc \in {"initial_wait", "loop_top", "no_content_wait"}

\* scenes.json lists scenes, all scheduled off now, and a reload inside the
\* running loop has just put up the screen
C9_Witness ==
    /\ app = "scene_by_scene"
    /\ pc = "no_content_wait"
    /\ scenes_file # None
    /\ Val(scenes_file) # <<>>
    /\ \A k \in 1 .. Len(Val(scenes_file)) : ~is_scene_scheduled_now(Val(scenes_file)[k], now)
    /\ loaded_scenes = Some(<<>>)
    /\ last_schedule_check = 1
    /\ mpv = None
    /\ "jam_display_no_schedule" \in feh_images

MondayOvernight ==
    [id |-> "S",
     days_scheduled |-> <<[dayOfWeek |-> [kind |-> "str", str |-> "MONDAY"],
                           startTime |-> <<22, 0>>, endTime |-> <<2, 0>>]>>]

\* C11: an entry for the current weekday whose start is later than its end is
\* an overnight window: the scene is active exactly when now >= start or
\* now <= end. MONDAY 22:00-02:00 is active on Monday at 23:30 and at 01:00
C11_OvernightWindow ==
    scheduled_now # None
    => /\ (/\ TodayEntries # {}
           /\ WellFormed(TodayEntry.startTime) /\ WellFormed(TodayEntry.endTime)
           /\ SecondsOf(TodayEntry.startTime) > SecondsOf(TodayEntry.endTime))
          => Val(scheduled_now) = (\/ now.time >= SecondsOf(TodayEntry.startTime)
                                   \/ now.time <= SecondsOf(TodayEntry.endTime))
       /\ schedule_scene = MondayOvernight
          => /\ now = [weekday |-> 0, time |-> 84600] => Val(scheduled_now) = TRUE
             /\ now = [weekday |-> 0, time |-> 3600] => Val(scheduled_now) = TRUE
             /\ now = [weekday |-> 0, time |-> 43200] => Val(scheduled_now) = FALSE

\* MONDAY 22:00-02:00 found active on Monday at 01:00
C11_Witness ==
    /\ schedule_scene = MondayOvernight
    /\ now = [weekday |-> 0, time |-> 3600]
    /\ scheduled_now = Some(TRUE)

(***************************************************************************)
(* Claims on two devices                                                   *)
(***************************************************************************)
\* the durations of a playlist in milliseconds, in order
RECURSIVE DurationsMs(_)
DurationsMs(ss) ==
    IF ss = <<>> THEN <<>>
    ELSE <<IntMs(IF "actual_duration" \in DOMAIN Head(ss) THEN Head(ss).actual_duration
                 ELSE Head(ss).duration)>> \o DurationsMs(Tail(ss))

\* both devices have mapped the same wall-clock value on the same playlist
SameInputs ==
    /\ peer # None
    /\ wall_clock_ms # None
    /\ exception = NoException
    /\ wall_clock_ms = Val(peer).wall_clock_ms
    /\ IF app = "display" THEN DurationsMs(scenes) = DurationsMs(Val(peer).scenes)
       ELSE loop_duration_ms = Val(peer).loop_duration_ms

C13_AtomicPlaylistReplacement ==
    (app = "content_swap" /\ loaded_scenes # None)
    => /\ Val(loaded_scenes) \in {Val(previous_live), staged_scenes}
       /\ read_missing_media = {}

\* a load between rmtree and the end of copytree has returned no scene
C13_Witness ==
    /\ app = "content_swap"
    /\ cm_pc \in {"removed", "copying"}
    /\ loaded_scenes = Some(<<>>)
    /\ staged_scenes # <<>>
    /\ Val(previous_live) # <<>>

(***************************************************************************)
(* Claims on the display manager                                           *)
(***************************************************************************)
\* the manager is inside one of the two playback loops
InPlaybackLoop ==
    /\ app = "scene_by_scene"
    /\ pc \in {"enter", "initial_wait", "loop_top", "no_content_wait", "play", "loop_enter",
               "loop_video"}

\* the manager is out of the playback loops with the player stopped, in the
\* static mode the gate asks for, or the process has ended
PlaybackLeft ==
    \/ pc \in {"exited", "crashed"}
    \/ /\ pc = "run"
       /\ current_mode # PLAYING_CONTENT
       /\ mpv = None

\* C14 (as stated): when the derived display mode becomes a non-playing mode
\* while a playback loop is running, the manager eventually leaves the loop,
\* stops the player and shows the static screen (unless the gate turns back
\* to playing first)
C14_GateChangeLeavesPlayback ==
    (InPlaybackLoop /\ DesiredMode # PLAYING_CONTENT)
        ~> (PlaybackLeft \/ DesiredMode = PLAYING_CONTENT)

\* the scene-by-scene loop is playing while the gate asks for the
\* unregistered screen
C14_Witness ==
    /\ InPlaybackLoop
    /\ pc = "play"
    /\ current_mode = PLAYING_CONTENT
    /\ DesiredMode = UNREGISTERED
    /\ current_scene_index >= 0
    /\ mpv # None

\* the process has left run(): its `finally: cleanup()` has run
ProcessExited == pc = "exited"

\* the player process is stopped and no static-screen process is left
PlayerAndScreenStopped == mpv = None /\ feh_process = None /\ feh_images = {}

\* a step that sends a playback command to the player
PlaybackCommandIssued == commands' # <<>> /\ commands' # commands

\* C15, first part: once the running flag is cleared the process exits (or
\* dies of an exception), and at exit the player is stopped and the
\* static-screen process terminated
C15_StoppedBeforeExit ==
    /\ [](ProcessExited => PlayerAndScreenStopped)
    /\ (~running ~> pc \in {"exited", "crashed"})

\* C15: a shutdown signal leads to the player being stopped and the
\* static-screen process being terminated before the process exits, and no
\* playback command is issued after the running flag is cleared
C15_ShutdownStopsPlayback ==
    /\ [](ProcessExited => PlayerAndScreenStopped)
    /\ (~running ~> pc \in {"exited", "crashed"})
    /\ [][~running => ~PlaybackCommandIssued]_vars

\* the handler has run, the player was started after it and has been sent
\* the stitched loop
C15_Witness ==
    /\ ~running
    /\ pc = "loop_video"
    /\ mpv # None
    /\ Len(commands) = 3
    /\ commands[1] = LoadFile("loop.mp4")

(***************************************************************************)
(* Claims on the connectivity monitor                                      *)
(***************************************************************************)
\* C16: hysteresis of InternetConnectivityMonitor. A check() that starts
\* online reports offline exactly when it failed and the consecutive failures
\* reach failures_required with it; a successful check() that starts offline
\* reports online and leaves the failure counter at 0; state_changed is true
\* after a check() exactly when that check flipped is_online
C16_Hysteresis ==
    last_check # None =>
        LET c == Val(last_check)
        IN  /\ c.returned = monitor.is_online
            /\ c.was_online =>
                (~c.returned <=>
                    /\ ~c.has_internet
                    /\ c.failures_before + 1 = monitor.failures_required
                    /\ monitor.consecutive_failures = monitor.failures_required)
            /\ (~c.was_online /\ c.has_internet) =>
                (c.returned /\ monitor.consecutive_failures = 0)
            /\ monitor.state_changed <=> (monitor.is_online # c.was_online)

\* with the default threshold the fifth consecutive failure has just turned
\* the monitor offline
C16_Witness ==
    /\ last_check # None
    /\ monitor.failures_required = 5
    /\ Val(last_check).was_online
    /\ Val(last_check).failures_before = 4
    /\ ~Val(last_check).has_internet
    /\ ~monitor.is_online
    /\ monitor.state_changed

(***************************************************************************)
(* Claims on the BLE state manager                                         *)
(***************************************************************************)
\* the manage_service calls for jam-ble-provisioning in the latest handler
BleRequests ==
    SelectSeq(service_requests, LAMBDA r : r.service = BLE_PROVISIONING_SERVICE)

C17_WitnessStop ==
    /\ ble_pc = "monitoring"
    /\ applied = Some([is_online |-> TRUE, registered |-> TRUE])
    /\ last_check # None
    /\ ~Val(last_check).was_online
    /\ BleRequests = <<ManageService(BLE_PROVISIONING_SERVICE, FALSE)>>
    /\ ~ble_active

(***************************************************************************)
(* Claims on the health monitor                                            *)
(***************************************************************************)
\* the restarted services followed
RestartedServices == HealthServices \cap ALWAYS_RUNNING_SERVICES

\* the failures of service s up to time t that fall inside the window ending
\* at t, counted on the full record of its failures
FailuresInWindow(s, t) ==
    Cardinality({i \in 1..Len(failure_log[s]) :
                    failure_log[s][i] > t - 5 /\ failure_log[s][i] <= t})

\* C18: crash-loop protection. For a service that is always to run, a
\* detected failure is answered with a restart exactly when at most 3
\* failures, this one included, fall inside the last 5 minutes; otherwise no
\* restart is attempted, a CRITICAL error is reported and the tracker gives
\* up; and once it has given up the service is never restarted or reported
\* again and gave_up stays set
C18_CrashLoopProtection ==
    /\ [](\A s \in RestartedServices :
            LET f == findings[s]
            IN  /\ f.failure =>
                    /\ f.restart_attempted <=> FailuresInWindow(s, f.at) <= 3
                    /\ f.restart_attempted => f.reported = "HIGH"
                    /\ ~f.restart_attempted =>
                        (f.reported = "CRITICAL" /\ trackers[s].gave_up)
                /\ ~f.failure => (~f.restart_attempted /\ f.reported = "none"))
    /\ [][\A s \in RestartedServices :
            trackers[s].gave_up =>
                /\ trackers'[s] = trackers[s]
                /\ failure_log'[s] = failure_log[s]
                /\ findings'[s] = findings[s] \/ findings'[s] = Skipped(health_now)]_vars

\* the display service failed a fourth time within five minutes after three
\* restarts: no restart, CRITICAL reported, tracker given up
C18_Witness ==
    /\ Len(failure_log["jam-player-display.service"]) = 4
    /\ FailuresInWindow("jam-player-display.service", health_now) = 4
    /\ findings["jam-player-display.service"].failure
    /\ ~findings["jam-player-display.service"].restart_attempted
    /\ findings["jam-player-display.service"].reported = "CRITICAL"
    /\ trackers["jam-player-display.service"].gave_up

(***************************************************************************)
(* Claims on the speed commands of a tick                                  *)
(***************************************************************************)
\* the set_speed commands among the commands of a tick
SpeedCommands(cmds) == SelectSeq(cmds, LAMBDA c : c.cmd = "set_speed")

\* C19 as stated: on every tick a set_speed command is sent only when the
\* target speed differs from the tracked speed; no tick sends a speed
\* command whose value equals the tracked speed
C19_SetSpeedOnlyOnChange ==
    tick # None =>
        \A k \in 1..Len(Val(tick).result.cmds) :
            Val(tick).result.cmds[k].cmd = "set_speed" =>
                Val(tick).result.cmds[k].arg # Val(tick).speed_before

\* C19 amended: a tick that does not seek sends set_speed exactly when the
\* target speed differs from the tracked speed, once and with the target
\* speed; a tick that seeks sends set_speed(1.0) after the seek whatever the
\* tracked speed is
C19_SetSpeedOnlyOnChangeUnlessSeek ==
    tick # None =>
        LET t == Val(tick)
            speeds == SpeedCommands(t.result.cmds)
        IN  IF HasSeek(t.result.cmds)
            THEN /\ Len(t.result.cmds) = 2
                 /\ t.result.cmds[1].cmd = "seek"
                 /\ t.result.cmds[2] = SetSpeed(SPEED_NORMAL)
            ELSE /\ t.result.cmds = speeds
                 /\ speeds = <<>> <=> t.result.speed = t.speed_before
                 /\ speeds # <<>> =>
                     /\ speeds = <<SetSpeed(t.result.speed)>>
                     /\ speeds[1].arg # t.speed_before

\* a tick at the moderate tier found the player at the gentle speed and sent
\* the one command that changes it
C19_Witness ==
    /\ tick # None
    /\ Val(tick).speed_before = SPEED_GENTLE_FAST
    /\ Val(tick).result.cmds = <<SetSpeed(SPEED_MODERATE_FAST)>>
    /\ current_speed = SPEED_MODERATE_FAST

\* C20: a tick on which the player reports no position is skipped: no seek
\* and no set_speed is sent, and the tracked speed and the sync counters are
\* left as they were
C20_TickSkippedWithoutPosition ==
    (tick # None /\ Val(tick).actual_sec = None) =>
        /\ Val(tick).result.cmds = <<>>
        /\ Val(tick).result.offset = None
        /\ Val(tick).result.counted = ""
        /\ current_speed = Val(tick).speed_before

\* the player was being slowed down when a tick found no position
C20_Witness ==
    /\ tick # None
    /\ Val(tick).actual_sec = None
    /\ Val(tick).speed_before = SPEED_AGGRESSIVE_SLOW
    /\ current_speed = SPEED_AGGRESSIVE_SLOW
    /\ Val(tick).result.cmds = <<>>

(***************************************************************************)
(* Claims on the modulus, the reload and a missing media file              *)
(***************************************************************************)
\* C23: whenever the expected position is computed the duration used as
\* modulus is strictly positive: a zero duration (empty playlist, scenes
\* whose durations sum to 0, loop metadata with total_duration 0) is handled
\* as nothing to play and never reaches the modulo, so no step ends with a
\* division by zero
C23_ModulusStrictlyPositive ==
    /\ exception # ZeroDivisionError
    /\ position_in_cycle_ms # None => cycle_duration_ms > 0

\* a playlist of scenes whose durations sum to 0 reached the modulo
C23_Witness ==
    /\ pc = "crashed"
    /\ exception = ZeroDivisionError
    /\ scenes # <<>>
    /\ cycle_duration_ms = 0
    /\ position_in_cycle_ms = None

\* the top of an iteration has just dealt with the content file as it is now
ReloadProcessed ==
    /\ app = "scene_by_scene"
    /\ pc \in {"play", "no_content_wait"}
    /\ loaded_scenes # None
    /\ last_scenes_mtime = Some(IF scenes_file = None THEN 0 ELSE scenes_mtime)

\* C25: once a content update has been detected and processed, the in-memory
\* playlist (scene ids, durations, media files) is the newly loaded active
\* playlist and the cycle duration is the one of that playlist, also when
\* only durations or media files changed and the scene ids stayed the same
C25_PlaylistFollowsContentUpdate ==
    ReloadProcessed
    => /\ scenes = with_actual_durations(Val(loaded_scenes))
       /\ scenes # <<>> =>
            cycle_duration_ms =
                calculate_cycle_duration_ms(with_actual_durations(Val(loaded_scenes)))

\* scene B was edited (10 s, b2.mp4) and the reload has seen the new file, yet
\* the loop still holds the 20 s scene on b.mp4
C25_Witness ==
    /\ ReloadProcessed
    /\ pc = "play"
    /\ scenes_file = Some(<<SceneB2>>)
    /\ Val(loaded_scenes) = with_actual_durations(<<SceneB2>>)
    /\ scenes = with_actual_durations(<<SceneB>>)
    /\ cycle_duration_ms = 20000

\* the iteration that just ended selected a scene that is not the one on
\* screen and whose media file is missing on disk
SelectedSceneMissing ==
    /\ app = "scene_by_scene"
    /\ pc \in {"loop_top", "crashed"}
    /\ scene_at # None
    /\ scene_at[1] # current_scene_index
    /\ scenes[scene_at[1] + 1].media_file \notin media_files

\* the scene after the selected one, in playlist order
SceneAfterSelected == scenes[((scene_at[1] + 1) % Len(scenes)) + 1]

\* C26: when the media file of the selected scene is missing on disk (and the
\* playlist has a next scene whose file is there) the loop skips to the next
\* scene: that scene is loaded in the iteration, and the loop does not crash
C26_MissingMediaSkipsToNextScene ==
    (SelectedSceneMissing /\ SceneAfterSelected.media_file \in media_files)
    => /\ pc # "crashed"
       /\ \E k \in 1 .. Len(commands) : commands[k] = LoadFile(SceneAfterSelected.media_file)

\* [A 10 s, B 20 s] with b.mp4 missing, read at 25 s: B is selected and the
\* iteration ends without a command
C26_Witness ==
    /\ SelectedSceneMissing
    /\ scenes = with_actual_durations(<<SceneA, SceneB>>)
    /\ "a.mp4" \in media_files
    /\ scene_at[1] = 1
    /\ wall_clock_ms = Some(25000)
    /\ commands = <<>>
    /\ pc = "loop_top"

(***************************************************************************)
(* Claims on the two playback modes and on what holds the screen           *)
(***************************************************************************)
\* the manager is playing the stitched loop
OnStitchedLoop == app = "scene_by_scene" /\ pc \in {"loop_enter", "loop_video"}

\* C28: whenever the live playlist contains a scene with scheduling
\* constraints, playback is not on the stitched loop, in every state of
\* playback and also after a content update that adds a scheduled scene; the
\* stitched loop is used only while loop.mp4 and its metadata exist
C28_ScheduledScenesPlaySceneByScene ==
    OnStitchedLoop
    => /\ ~has_scheduled_scenes(scenes_file)
       /\ loop_mp4
       /\ loop_meta # None

\* a scheduled scene was added while the stitched loop was playing, and the
\* loop has made a sync tick since
C28_Witness ==
    /\ pc = "loop_video"
    /\ StillPlaying
    /\ scenes_file = Some(<<SceneA, SceneB>>)
    /\ scenes_mtime = 1
    /\ tick # None

\* whether, going through the operations in their order from the given
\* holdings, a player and a static screen are at some point both there
RECURSIVE ops_overlap(_, _, _)
ops_overlap(ops, player, screen) ==
    IF ops = <<>> THEN FALSE
    ELSE LET player_then == CASE Head(ops) = "start_mpv" -> TRUE
                              [] Head(ops) = "stop_mpv" -> FALSE
                              [] OTHER -> player
             screen_then == CASE Head(ops) = "show_feh" -> TRUE
                              [] Head(ops) = "kill_feh" -> FALSE
                              [] OTHER -> screen
         IN  (player_then /\ screen_then) \/ ops_overlap(Tail(ops), player_then, screen_then)

\* C27: static screen and player are mutually exclusive: in no state are a
\* static-screen process (or its handle) and a player both held, and every
\* handler that changes the screen kills the static screen before it starts
\* the player and stops the player before it shows a static screen (the
\* mode screens and the no-scheduled-content screen alike)
C27_ScreenAndPlayerExclusive ==
    /\ ~(mpv # None /\ feh_process # None)
    /\ ~(mpv # None /\ feh_images # {})
    /\ ~ops_overlap(screen_ops.ops, screen_ops.player, screen_ops.screen)

\* the no-scheduled-content screen has replaced a player that was running
C27_Witness ==
    /\ screen_ops = [player |-> TRUE, screen |-> FALSE, ops |-> <<"stop_mpv", "show_feh">>]
    /\ feh_process = Some(NO_SCHEDULE_IMAGE)
    /\ mpv = None
    /\ current_mode = PLAYING_CONTENT

(***************************************************************************)
(* Claims on the initial sync after a load                                 *)
(***************************************************************************)
\* the positions of the load commands among the commands of the iteration
LoadIndices == {k \in 1 .. Len(commands) : commands[k].cmd = "loadfile"}

\* the load at position k is of the stitched loop
IsLoopLoad(k) == commands[k] = LoadFile("loop.mp4")

\* the k-th command loaded a unit, and the commands right after it are the
\* absolute seek to the expected position of that unit and set_speed(1.00)
SeekFollowsLoad(k) ==
    /\ k + 2 <= Len(commands)
    /\ commands[k + 1] = Seek(MsAsSec(IF IsLoopLoad(k) THEN Val(position_ms) ELSE scene_at[2]))
    /\ commands[k + 2] = SetSpeed(SPEED_NORMAL)

\* the unit loaded at position k is a video whose duration can serve as modulus
LoadedUnitSeekable(k) ==
    IF IsLoopLoad(k) THEN loop_duration_ms > 0
    ELSE Get(scenes[scene_at[1] + 1], "media_type", "VIDEO") = "VIDEO"

NoContentState ==
    /\ app = "scene_by_scene"
    /\ pc \in {"initial_wait", "no_content_wait", "loop_top"}
    /\ scenes = <<>>
    /\ mpv = None
    /\ StillPlaying

\* the active playlist is not empty now, its media files are on disk and its
\* cycle duration is positive
PlaylistPlayable ==
    LET active == with_actual_durations(load_scenes(scenes_file, now))
    IN  /\ active # <<>>
        /\ \A k \in 1 .. Len(active) : active[k].media_file \in media_files
        /\ calculate_cycle_duration_ms(active) > 0

\* playback has resumed: the static screen is gone, a player is there, the
\* cycle duration is the one of the playlist, and the scene selected by the
\* timeline has been loaded (and seeked, when it is a video)
PlaybackResumed ==
    /\ app = "scene_by_scene"
    /\ feh_process = None
    /\ feh_images = {}
    /\ mpv # None
    /\ scenes # <<>>
    /\ cycle_duration_ms = calculate_cycle_duration_ms(scenes)
    /\ \E k \in LoadIndices : LoadedUnitSeekable(k) => SeekFollowsLoad(k)

\* C24: from the no-content state, once the active playlist is non-empty
\* (new content, or a schedule window opens), playback eventually resumes,
\* unless the manager is meanwhile told to stop or the playlist stops being
\* playable again
C24_ResumesFromNoContent ==
    [](NoContentState /\ PlaylistPlayable
        => <>(PlaybackResumed \/ ~StillPlaying \/ ~PlaylistPlayable))

\* a schedule window opened between the 5-second re-check and the reload at
\* the top of the loop: the playlist was taken over without a player and the
\* loop has died on it
C24_Witness ==
    /\ app = "scene_by_scene"
    /\ pc = "crashed"
    /\ exception = AttributeError
    /\ mpv = None
    /\ feh_process = Some(NO_SCHEDULE_IMAGE)
    /\ scenes # <<>>
    /\ PlaylistPlayable
    /\ StillPlaying

(***************************************************************************)
(* The duration waits of JamPlayerDisplayManager: _wait_for_video_end and  *)
(* _wait_for_duration (jam_player_display.py lines 1576-1668).  One action *)
(* is one iteration of a polling loop; an iteration that reaches its sleep *)
(* moves the clock by the sleep (the other statements take no time).       *)
(* Times are tenths of a second.                                           *)
(***************************************************************************)
Tenths(seconds) == seconds * 10

\* range(30) of the duration polls
DURATION_PROBES == 30

\* time.sleep(0.5) of a duration poll
PROBE_SLEEP == 5

\* time.sleep(0.1) of a wait iteration
WAIT_SLEEP == 1

\* duration = 30 when get_duration never answered
FALLBACK_DURATION == Tenths(30)

\* "Check for content updates every second"
CONTENT_CHECK_INTERVAL == Tenths(1)

\* current_time - start_time > 5 / current_time - last_state_check >= 5
STATE_CHECK_INTERVAL == Tenths(5)

\* longest age of a content update that is counted
MaxTrackedAge == 11

\* what get_duration() answers: nothing, 0, or a duration
DurationReports == {None, Some(0), Some(3), Some(Tenths(1))}

\* the duration_seconds handed to _wait_for_duration
DurationArguments == {0, 3, Tenths(1), Tenths(6)}

\* _check_content_updated()
check_content_updated ==
    /\ scenes_file # None
    /\ last_scenes_mtime # None
    /\ scenes_mtime # Val(last_scenes_mtime)

wait_timeout_without_buffer(duration) == duration

\* the safety timeout of _wait_for_video_end: duration + 5
wait_timeout(duration) == duration + Tenths(5)

\* the ages after an iteration slept for slept tenths of a second
Aged(age, slept) ==
    IF age = None THEN None
    ELSE Some(IF Val(age) + slept > MaxTrackedAge THEN MaxTrackedAge ELSE Val(age) + slept)

Polled(polls) == IF polls = None THEN None ELSE Some(Val(polls) + 1)

WaitActive == wait_pc \in {"probe", "waiting"}

InitWait ==
    /\ app = "wait"
    /\ peer = None
    /\ GateIdle
    /\ SwapIdle
    /\ TimelineIdle
    /\ SyncIdle
    /\ ScheduleIdle
    /\ MonitorIdle
    /\ BleIdle
    /\ HealthIdle
    /\ PlayerIdle
    /\ IpcIdle
    /\ now \in LoopNowSamples
    /\ pc = "idle"
    /\ running = TRUE
    /\ current_mode = PLAYING_CONTENT
    /\ scenes_file = Some(<<SceneA>>)
    /\ scenes_mtime = 0
    /\ media_files = {"a.mp4"}
    /\ x_display = TRUE
    /\ mpv = Some([started |-> TRUE])
    /\ feh_process = None
    /\ feh_images = {}
    /\ screen_ops = NoScreenOps
    /\ current_scene_index = -1
    /\ last_scenes_mtime \in {None, Some(0)}
    /\ content_changed = None
    /\ last_schedule_check = 0
    /\ loaded_scenes = None
    /\ commands = <<>>
    /\ wait_fn \in {"video_end", "duration"}
    /\ wait_pc = IF wait_fn = "video_end" THEN "probe" ELSE "waiting"
    /\ wait_result = None
    /\ returned_by = ""
    /\ probe_polls = 0
    /\ wait_duration \in IF wait_fn = "video_end" THEN {None}
                         ELSE {Some(d) : d \in DurationArguments}
    /\ elapsed = 0
    /\ last_content_check = 0
    /\ last_state_check = 0
    /\ eof_reached = FALSE
    /\ cancel_polls = None
    /\ update_age = None

WaitUnchanged ==
    UNCHANGED <<app, monitorVars, bleVars, healthVars, playerVars, ipcVars, gateVars, peer, swapVars,
                timelineVars, syncVars, now, scheduleVars, pc, current_mode, x_display, feh_process,
                feh_images, screen_ops, current_scene_index, last_scenes_mtime, content_changed,
                last_schedule_check, loaded_scenes, commands, wait_fn>>

WaitReturns(value, by) ==
    /\ wait_pc' = "returned"
    /\ wait_result' = Some(value)
    /\ returned_by' = by
    /\ UNCHANGED <<probe_polls, wait_duration, elapsed, last_state_check, cancel_polls,
                   update_age>>

\* one iteration of the duration polls of _wait_for_video_end (lines
\* 1588-1600); the poll that ends the for loop also takes lines 1596-1603
ProbeDuration ==
    /\ app = "wait"
    /\ wait_fn = "video_end"
    /\ wait_pc = "probe"
    /\ IF ~StillPlaying
         THEN /\ WaitReturns(FALSE, "interrupted")
              /\ UNCHANGED last_content_check
         ELSE \E reported \in DurationReports :
                LET valid == reported # None /\ Val(reported) > 0
                    last == ~valid /\ probe_polls + 1 = DURATION_PROBES
                IN  /\ probe_polls' = IF valid \/ last THEN 0 ELSE probe_polls + 1
                    /\ wait_duration' = IF last /\ reported = None
                                          THEN Some(FALLBACK_DURATION) ELSE reported
                    /\ wait_pc' = IF valid \/ last THEN "waiting" ELSE "probe"
                    /\ cancel_polls' = IF valid THEN cancel_polls ELSE Polled(cancel_polls)
                    /\ update_age' = IF valid THEN update_age ELSE Aged(update_age, PROBE_SLEEP)
                    /\ UNCHANGED <<wait_result, returned_by, elapsed, last_content_check,
                                   last_state_check>>
    /\ UNCHANGED <<running, mpv, scenes_file, scenes_mtime, media_files, eof_reached>>
    /\ WaitUnchanged

\* one iteration of the while loop of _wait_for_video_end (lines 1605-1634)
VideoEndPoll ==
    /\ app = "wait"
    /\ wait_fn = "video_end"
    /\ wait_pc = "waiting"
    /\ LET state_check == elapsed > STATE_CHECK_INTERVAL
           content_check == elapsed - last_content_check >= CONTENT_CHECK_INTERVAL
       IN  IF ~StillPlaying
             THEN /\ WaitReturns(FALSE, "interrupted")
                  /\ UNCHANGED last_content_check
             ELSE IF state_check /\ DesiredMode # current_mode
             THEN /\ WaitReturns(FALSE, "mode")
                  /\ UNCHANGED last_content_check
             ELSE /\ last_content_check' = IF content_check THEN elapsed
                                           ELSE last_content_check
                  /\ IF content_check /\ check_content_updated
                       THEN WaitReturns(FALSE, "content")
                     ELSE IF eof_reached
                       THEN WaitReturns(TRUE, "eof")
                     ELSE IF elapsed > wait_timeout(Val(wait_duration))
                       THEN WaitReturns(TRUE, "timeout")
                     ELSE /\ elapsed' = elapsed + WAIT_SLEEP
                          /\ cancel_polls' = Polled(cancel_polls)
                          /\ update_age' = Aged(update_age, WAIT_SLEEP)
                          /\ UNCHANGED <<wait_pc, wait_result, returned_by, probe_polls,
                                         wait_duration, last_state_check>>
    /\ UNCHANGED <<running, mpv, scenes_file, scenes_mtime, media_files, eof_reached>>
    /\ WaitUnchanged

\* one iteration of the while loop of _wait_for_duration (lines 1644-1668)
DurationPoll ==
    /\ app = "wait"
    /\ wait_fn = "duration"
    /\ wait_pc = "waiting"
    /\ LET state_check == elapsed - last_state_check >= STATE_CHECK_INTERVAL
           content_check == elapsed - last_content_check >= CONTENT_CHECK_INTERVAL
       IN  IF ~StillPlaying
             THEN /\ WaitReturns(FALSE, "interrupted")
                  /\ UNCHANGED last_content_check
             ELSE IF elapsed >= Val(wait_duration)
             THEN /\ WaitReturns(TRUE, "elapsed")
                  /\ UNCHANGED last_content_check
             ELSE IF state_check /\ DesiredMode # current_mode
             THEN /\ wait_pc' = "returned"
                  /\ wait_result' = Some(FALSE)
                  /\ returned_by' = "mode"
                  /\ last_state_check' = elapsed
                  /\ UNCHANGED <<probe_polls, wait_duration, elapsed, last_content_check,
                                 cancel_polls, update_age>>
             ELSE IF content_check /\ check_content_updated
             THEN /\ wait_pc' = "returned"
                  /\ wait_result' = Some(FALSE)
                  /\ returned_by' = "content"
                  /\ last_state_check' = IF state_check THEN elapsed ELSE last_state_check
                  /\ last_content_check' = elapsed
                  /\ UNCHANGED <<probe_polls, wait_duration, elapsed, cancel_polls, update_age>>
             ELSE /\ last_state_check' = IF state_check THEN elapsed ELSE last_state_check
                  /\ last_content_check' = IF content_check THEN elapsed
                                           ELSE last_content_check
                  /\ elapsed' = elapsed + WAIT_SLEEP
                  /\ cancel_polls' = Polled(cancel_polls)
                  /\ update_age' = Aged(update_age, WAIT_SLEEP)
                  /\ UNCHANGED <<wait_pc, wait_result, returned_by, probe_polls, wait_duration>>
    /\ UNCHANGED <<running, mpv, scenes_file, scenes_mtime, media_files, eof_reached>>
    /\ WaitUnchanged

WaitEnvUnchanged ==
    UNCHANGED <<wait_pc, wait_result, returned_by, probe_polls, wait_duration, elapsed,
                last_content_check, last_state_check>>

\* the running flag is cleared while the wait is in progress: _signal_handler
\* (lines 867-871) ran inside a player request of the wait, cleanup() dropped
\* the player, and the SystemExit was swallowed by a bare except of
\* _send_command
RunningCleared ==
    /\ app = "wait"
    /\ wait_fn = "video_end"
    /\ WaitActive
    /\ running
    /\ running' = FALSE
    /\ mpv' = None
    /\ cancel_polls' = Some(0)
    /\ WaitEnvUnchanged
    /\ UNCHANGED <<scenes_file, scenes_mtime, media_files, eof_reached, update_age>>
    /\ WaitUnchanged

\* the content manager rewrites scenes.json while the wait is in progress
ContentRewritten ==
    /\ app = "wait"
    /\ WaitActive
    /\ scenes_file # None
    /\ scenes_mtime < MaxMtime
    /\ update_age = None
    /\ scenes_file' = Some(<<SceneA, SceneB>>)
    /\ scenes_mtime' = scenes_mtime + 1
    /\ update_age' = Some(0)
    /\ WaitEnvUnchanged
    /\ UNCHANGED <<running, mpv, media_files, eof_reached, cancel_polls>>
    /\ WaitUnchanged

\* the live content is removed while the wait is in progress
ContentRemoved ==
    /\ app = "wait"
    /\ WaitActive
    /\ scenes_file # None
    /\ update_age = None
    /\ scenes_file' = None
    /\ WaitEnvUnchanged
    /\ UNCHANGED <<running, mpv, scenes_mtime, media_files, eof_reached, cancel_polls, update_age>>
    /\ WaitUnchanged

\* the player reaches the end of the file
PlayerReachesEof ==
    /\ app = "wait"
    /\ wait_fn = "video_end"
    /\ wait_pc = "waiting"
    /\ ~eof_reached
    /\ eof_reached' = TRUE
    /\ WaitEnvUnchanged
    /\ UNCHANGED <<running, mpv, scenes_file, scenes_mtime, media_files, cancel_polls, update_age>>
    /\ WaitUnchanged

NextWait ==
    \/ ProbeDuration
    \/ VideoEndPoll
    \/ DurationPoll
    \/ RunningCleared
    \/ ContentRewritten
    \/ ContentRemoved
    \/ PlayerReachesEof

SpecWait == InitWait /\ [][NextWait]_vars

\* C29: every wait tied to content duration re-checks its cancellation
\* condition on each poll iteration: once the running flag is cleared no poll
\* iteration of _wait_for_video_end / _wait_for_duration goes to sleep again,
\* and while a wait is in progress a rewrite of scenes.json is never older
\* than one content-check interval (1 s)
C29_WaitsHonourCancellation ==
    /\ cancel_polls # None => Val(cancel_polls) = 0
    /\ (WaitActive /\ update_age # None) => Val(update_age) <= CONTENT_CHECK_INTERVAL

\* a rewrite of scenes.json during a wait was noticed by the content check of
\* the while loop, which returned False
C29_Witness ==
    /\ returned_by = "content"
    /\ wait_result = Some(FALSE)
    /\ update_age # None
    /\ Val(update_age) > 0

WaitStateBounded ==
    wait_fn = "video_end" =>
        /\ probe_polls < DURATION_PROBES
        /\ wait_pc = "waiting" =>
            /\ wait_duration # None
            /\ wait_timeout(Val(wait_duration)) > Val(wait_duration)
            /\ elapsed <= Val(wait_duration) + Tenths(5) + WAIT_SLEEP
        /\ returned_by = "eof" => wait_result = Some(TRUE) /\ eof_reached
        /\ returned_by = "timeout" =>
            /\ wait_result = Some(TRUE)
            /\ ~eof_reached
            /\ elapsed > Val(wait_duration) + Tenths(5)
        /\ wait_result = Some(TRUE) => returned_by \in {"eof", "timeout"}

\* C30: _wait_for_video_end always terminates: the duration polls are bounded,
\* the wait never lasts longer than one poll beyond duration + 5 s, it returns
\* True only on eof-reached or once the elapsed time exceeds duration + 5 s
\* (a timeout strictly larger than the duration), and once the player reports
\* eof-reached no further iteration goes to sleep
C30_VideoEndWaitTerminates ==
    /\ []WaitStateBounded
    /\ [][(wait_fn = "video_end" /\ wait_pc = "waiting" /\ eof_reached) => elapsed' = elapsed]_vars

\* a wedged player: it never answered the duration polls and never reported
\* eof-reached, and the wait ended by the safety timeout of the 30 s fallback
C30_Witness ==
    /\ wait_fn = "video_end"
    /\ returned_by = "timeout"
    /\ wait_duration = Some(FALLBACK_DURATION)
    /\ ~eof_reached
    /\ running

(***************************************************************************)
(* MediaPlayer.run (jam_player_app.py lines 511-596): the loading phase    *)
(* with its duration polls, the initial synchronisation and the sync ticks *)
(* of the steady state.  One action is one iteration of the while loop up  *)
(* to load_file, one duration poll, or one iteration in the steady state.  *)
(***************************************************************************)
\* range(30) of the duration polls of MediaPlayer.run
LOAD_ATTEMPTS == 30

\* restarts of the player that are counted
MaxRestarts == 2

\* what get_duration() answers during the polls (float seconds)
PolledDurations == {None, Some(0), Some(Sec(10))}

\* time.time() readings of the run loop
PlayerClockSamples == {MsAsSec(4000), MsAsSec(12500)}

LOOP_FILE == "loop.mp4"

valid_duration(reported) == reported # None /\ Val(reported) > 0

\* the commands of initial_sync (lines 482-497)
initial_sync(expected_ms) == <<Seek(MsAsSec(expected_ms)), SetSpeed(SPEED_NORMAL)>>

InitPlayer ==
    /\ app = "media_player_run"
    /\ peer = None
    /\ SwapIdle
    /\ TimelineIdle
    /\ SyncIdle
    /\ ScheduleIdle
    /\ MonitorIdle
    /\ BleIdle
    /\ HealthIdle
    /\ WaitIdle
    /\ IpcIdle
    /\ registered = TRUE
    /\ screen_linked = TRUE
    /\ loop_mp4 \in BOOLEAN
    /\ loop_meta = None
    /\ pc = "idle"
    /\ running = TRUE
    /\ current_mode = PLAYING_CONTENT
    /\ scenes_file = None
    /\ scenes_mtime = 0
    /\ media_files = {}
    /\ x_display = TRUE
    /\ mpv = Some([started |-> TRUE])
    /\ feh_process = None
    /\ feh_images = {}
    /\ screen_ops = NoScreenOps
    /\ current_scene_index = -1
    /\ last_scenes_mtime = None
    /\ content_changed = None
    /\ last_schedule_check = 0
    /\ loaded_scenes = None
    /\ commands = <<>>
    /\ mp_pc = "top"
    /\ loop_video_path = None
    /\ is_playing = FALSE
    /\ load_attempts = 0
    /\ polled_duration = None
    /\ update_flag = FALSE
    /\ mpv_restarts = 0

PlayerUnchanged ==
    UNCHANGED <<app, monitorVars, bleVars, healthVars, waitVars, ipcVars, registered, screen_linked,
                loop_meta, peer, swapVars, scenes, cycle_duration_ms, position_in_cycle_ms,
                scene_at, exception, prev_tick, now, scheduleVars, pc, current_mode,
                scenes_file, scenes_mtime, media_files, x_display, feh_process, feh_images,
                screen_ops, current_scene_index, last_scenes_mtime, content_changed, last_schedule_check,
                loaded_scenes>>

\* one iteration of the while loop (lines 533-591) that does not end in the
\* duration polls: the loop is left, no loop video is found, load_file is
\* sent, or the steady state makes its sync check
RunIteration ==
    /\ app = "media_player_run"
    /\ mp_pc = "top"
    /\ IF ~running
         THEN /\ mp_pc' = "exited"
              /\ mpv' = Some([started |-> FALSE])
              /\ commands' = <<>>
              /\ UNCHANGED <<loop_video_path, is_playing, load_attempts, polled_duration,
                             update_flag, mpv_restarts, loop_duration_ms, wall_clock_ms,
                             position_ms, current_speed, tick>>
         ELSE LET playing == is_playing /\ ~update_flag
                  path == IF update_flag THEN None ELSE loop_video_path
                  found == IF path # None THEN path
                           ELSE IF loop_mp4 THEN Some(LOOP_FILE) ELSE None
              IN  /\ update_flag' = FALSE
                  /\ loop_video_path' = found
                  /\ IF found = None
                       THEN /\ is_playing' = playing
                            /\ commands' = <<>>
                            /\ UNCHANGED <<mp_pc, mpv, load_attempts, polled_duration,
                                           mpv_restarts, loop_duration_ms, wall_clock_ms,
                                           position_ms, current_speed, tick>>
                     ELSE IF ~playing
                       THEN /\ is_playing' = FALSE
                            /\ commands' = <<LoadFile(Val(found))>>
                            /\ load_attempts' = 0
                            /\ polled_duration' = None
                            /\ mp_pc' = "polling"
                            /\ UNCHANGED <<mpv, mpv_restarts, loop_duration_ms, wall_clock_ms,
                                           position_ms, current_speed, tick>>
                     ELSE \E sync_check_due \in BOOLEAN :
                          \E t \in PlayerClockSamples : \E behind \in {-1, 0, 50} :
                            LET w == get_wall_clock_ms(t)
                                expected_ms == calculate_expected_position_ms(w, loop_duration_ms)
                                actual_sec ==
                                    IF behind < 0 THEN None
                                    ELSE Some(MsAsSec((expected_ms + loop_duration_ms - behind)
                                                      % loop_duration_ms))
                                result == adjust_sync(loop_duration_ms, expected_ms, expected_ms,
                                                      actual_sec, current_speed)
                            IN  /\ is_playing' = TRUE
                                /\ IF sync_check_due
                                     THEN /\ wall_clock_ms' = Some(w)
                                          /\ position_ms' = Some(expected_ms)
                                          /\ commands' = result.cmds
                                          /\ current_speed' = result.speed
                                          /\ tick' = Some([duration_ms |-> loop_duration_ms,
                                                           expected_ms |-> expected_ms,
                                                           actual_sec |-> actual_sec,
                                                           speed_before |-> current_speed,
                                                           result |-> result])
                                     ELSE /\ behind = 0
                                          /\ t = MsAsSec(4000)
                                          /\ commands' = <<>>
                                          /\ UNCHANGED <<wall_clock_ms, position_ms,
                                                         current_speed, tick>>
                                /\ UNCHANGED <<mp_pc, mpv, load_attempts, polled_duration,
                                               mpv_restarts, loop_duration_ms>>
    /\ UNCHANGED <<running, loop_mp4>>
    /\ PlayerUnchanged

\* one duration poll (lines 558-564) and, with the poll that ends the for
\* loop, what follows it: restart of the player (566-573) or loop duration,
\* initial_sync and is_playing (575-581)
PollDuration ==
    /\ app = "media_player_run"
    /\ mp_pc = "polling"
    /\ \E reported \in PolledDurations : \E restart_ok \in BOOLEAN : \E t \in PlayerClockSamples :
        LET attempts == load_attempts + 1
            valid == valid_duration(reported)
            duration_ms == IntMs(Val(reported))
            w == get_wall_clock_ms(t)
            expected_ms == calculate_expected_position_ms(w, duration_ms)
        IN  /\ ~Val(mpv).started => reported = None
            /\ load_attempts' = attempts
            /\ polled_duration' = reported
            /\ IF valid
                 THEN /\ restart_ok
                      /\ loop_duration_ms' = duration_ms
                      /\ wall_clock_ms' = Some(w)
                      /\ position_ms' = Some(expected_ms)
                      /\ commands' = commands \o initial_sync(expected_ms)
                      /\ current_speed' = SPEED_NORMAL
                      /\ tick' = None
                      /\ is_playing' = TRUE
                      /\ mp_pc' = "top"
                      /\ UNCHANGED <<mpv, loop_video_path, mpv_restarts>>
               ELSE IF attempts = LOAD_ATTEMPTS
                 THEN /\ mpv' = Some([started |-> restart_ok])
                      /\ mpv_restarts' = IF mpv_restarts < MaxRestarts THEN mpv_restarts + 1
                                         ELSE mpv_restarts
                      /\ loop_video_path' = None
                      /\ mp_pc' = "top"
                      /\ t = MsAsSec(4000)
                      /\ UNCHANGED <<is_playing, loop_duration_ms, wall_clock_ms, position_ms,
                                     commands, current_speed, tick>>
               ELSE /\ restart_ok
                    /\ t = MsAsSec(4000)
                    /\ UNCHANGED <<mp_pc, mpv, loop_video_path, mpv_restarts, is_playing,
                                   loop_duration_ms, wall_clock_ms, position_ms, commands,
                                   current_speed, tick>>
    /\ UNCHANGED <<running, loop_mp4, update_flag>>
    /\ PlayerUnchanged

PlayerEnvUnchanged ==
    UNCHANGED <<loop_video_path, is_playing, load_attempts, polled_duration, mpv_restarts,
                loop_duration_ms, wall_clock_ms, position_ms, commands, current_speed, tick>>

\* signal_handler (lines 309-312): the flag is cleared, the player stopped
\* and the process left
PlayerSignal ==
    /\ app = "media_player_run"
    /\ mp_pc \in {"top", "polling"}
    /\ running' = FALSE
    /\ mpv' = Some([started |-> FALSE])
    /\ mp_pc' = "exited"
    /\ PlayerEnvUnchanged
    /\ UNCHANGED <<loop_mp4, update_flag>>
    /\ PlayerUnchanged

\* the backend announces new content (scene_update_flag_utils)
UpdateAnnounced ==
    /\ app = "media_player_run"
    /\ mp_pc \in {"top", "polling"}
    /\ ~update_flag
    /\ update_flag' = TRUE
    /\ PlayerEnvUnchanged
    /\ UNCHANGED <<running, mpv, mp_pc, loop_mp4>>
    /\ PlayerUnchanged

\* loop.mp4 appears in, or disappears from, the media directory
LoopFileChanges ==
    /\ app = "media_player_run"
    /\ mp_pc \in {"top", "polling"}
    /\ loop_mp4' = ~loop_mp4
    /\ PlayerEnvUnchanged
    /\ UNCHANGED <<running, mpv, mp_pc, update_flag>>
    /\ PlayerUnchanged

NextPlayer ==
    \/ RunIteration
    \/ PollDuration
    \/ PlayerSignal
    \/ UpdateAnnounced
    \/ LoopFileChanges

\* the run loop keeps iterating: its sleeps are finite
SpecPlayer == InitPlayer /\ [][NextPlayer]_vars /\ WF_vars(RunIteration \/ PollDuration)

\* the duration polls of the latest load_file were used up without a valid
\* (positive) duration
PollingWindowExhausted ==
    /\ load_attempts = LOAD_ATTEMPTS
    /\ ~valid_duration(polled_duration)

\* C22: if the player reports no valid (positive) duration throughout the
\* polling window (30 polls of 0.5 s), playback proceeds with a fallback
\* assumed duration: once the window of MediaPlayer.run is used up, and
\* neither shutdown nor a content update intervened, the player is playing on
\* a positive loop duration
C22_FallbackAfterPollingWindow ==
    (mp_pc = "top" /\ PollingWindowExhausted /\ running /\ ~update_flag)
        => (is_playing /\ loop_duration_ms > 0)

\* the window was used up twice in a row: the player was restarted instead,
\* the loop file forgotten, and the loading phase started over
C22_Witness ==
    /\ mp_pc = "top"
    /\ PollingWindowExhausted
    /\ mpv_restarts = MaxRestarts
    /\ loop_video_path = None
    /\ ~is_playing
    /\ running

(***************************************************************************)
(* Claims on several schedule entries for one weekday                      *)
(***************************************************************************)
\* a time string that is absent or "HH:MM"
Readable(time_str) == time_str = <<>> \/ WellFormed(time_str)

\* whether the window of an entry with readable times contains the time t
InWindow(entry, t) ==
    LET from == entry.startTime
        to == entry.endTime
    IN  IF from = <<>> /\ to = <<>> THEN TRUE
        ELSE IF from = <<>> THEN t <= SecondsOf(to)
        ELSE IF to = <<>> THEN t >= SecondsOf(from)
        ELSE IF SecondsOf(from) <= SecondsOf(to)
        THEN SecondsOf(from) <= t /\ t <= SecondsOf(to)
        ELSE t >= SecondsOf(from) \/ t <= SecondsOf(to)

\* C40: when a scene has several schedule entries for the current weekday,
\* is_scene_scheduled_now decides on the first such entry only: its result is
\* whether the first entry's window contains the current time, whatever the
\* later entries for the same weekday say
C40_FirstEntryOfDayDecides ==
    (/\ scheduled_now # None
     /\ Cardinality(TodayEntries) >= 2
     /\ Readable(TodayEntry.startTime)
     /\ Readable(TodayEntry.endTime))
    => Val(scheduled_now) = InWindow(TodayEntry, now.time)

\* FRIDAY 09:00-17:00 followed by an all-day FRIDAY entry, on Friday at
\* 20:00: reported inactive although the later entry contains the time
C40_Witness ==
    /\ scheduled_now = Some(FALSE)
    /\ now = [weekday |-> 4, time |-> 72000]
    /\ Len(SceneEntries) = 2
    /\ TodayEntries = {1, 2}
    /\ SceneEntries[1].startTime = <<9, 0>>
    /\ SceneEntries[1].endTime = <<17, 0>>
    /\ InWindow(SceneEntries[2], now.time)

(***************************************************************************)
(* Claims on the tier boundaries and on the three tick implementations     *)
(***************************************************************************)
\* C35: the tier boundaries are fixed and upper-inclusive: |offset| of
\* exactly 10 ms selects no correction (1.00x), exactly 30 ms the gentle
\* tier, exactly 100 ms the moderate tier and exactly 500 ms the aggressive
\* tier without a seek; 1 ms more selects the next tier, and only |offset|
\* above 500 ms seeks. An offset of +50 ms selects moderate, 0.97x
C35_TierBoundariesUpperInclusive ==
    TickHasOffset
    => LET r == Val(tick).result
           o == Abs(TickOffset)
       IN  /\ o = 10 => Tier(r) = 0 /\ current_speed = 100
           /\ o = 11 => Tier(r) = 1
           /\ o = 30 => Tier(r) = 1 /\ current_speed \in {99, 101}
           /\ o = 31 => Tier(r) = 2
           /\ o = 100 => Tier(r) = 2 /\ current_speed \in {97, 103}
           /\ o = 101 => Tier(r) = 3
           /\ o = 500 => Tier(r) = 3 /\ current_speed \in {95, 105} /\ ~HasSeek(r.cmds)
           /\ o = 501 => Tier(r) = 4
           /\ TickOffset = 50 => Tier(r) = 2 /\ current_speed = 97

\* the scene-by-scene tick at exactly +100 ms: moderate, 0.97x
C35_Witness ==
    /\ app = "display"
    /\ TickHasOffset
    /\ TickOffset = 100
    /\ Tier(Val(tick).result) = 2
    /\ current_speed = 97

\* what each of the three implementations does on the inputs of the latest tick
TickByAdjustVideoSync ==
    adjust_video_sync(Val(tick).duration_ms, Val(tick).expected_ms, Val(tick).actual_sec,
                      Val(tick).speed_before)

TickByLoopVideoSync ==
    loop_video_sync_tick(Val(tick).duration_ms, Val(tick).expected_ms, Val(tick).actual_sec,
                         Val(tick).speed_before)

TickByAdjustSync ==
    adjust_sync(Val(tick).duration_ms, Val(tick).expected_ms, Val(tick).seek_expected_ms,
                Val(tick).actual_sec, Val(tick).speed_before)

\* the tick that ran is the one of the running controller
TickRanAsImplemented ==
    LET ran == IF app = "display" THEN TickByAdjustVideoSync
               ELSE IF app = "display_loop" THEN TickByLoopVideoSync
               ELSE TickByAdjustSync
    IN  Val(tick).result.cmds = ran.cmds /\ Val(tick).result.speed = ran.speed

\* C36: the three sync-tick implementations are equivalent: for the same
\* expected position, actual position, duration and tracked commanded speed
\* they issue the same seek/set_speed commands and end with the same tracked
\* commanded speed
C36_TickImplementationsEquivalent ==
    tick # None
    => /\ TickRanAsImplemented
       /\ TickByAdjustVideoSync.cmds = TickByLoopVideoSync.cmds
       /\ TickByAdjustVideoSync.cmds = TickByAdjustSync.cmds
       /\ TickByAdjustVideoSync.speed = TickByLoopVideoSync.speed
       /\ TickByAdjustVideoSync.speed = TickByAdjustSync.speed

\* C36 as the code has it: the three implementations issue the same set_speed
\* commands, seek in the same cases and end with the same tracked speed; the
\* two ticks of the display manager seek to the expected position they were
\* given, MediaPlayer.adjust_sync seeks to the expected position it computes
\* anew from the wall clock, which is the same command whenever that value
\* has not moved since the offset was computed
C36_TickDecisionsEquivalent ==
    tick # None
    => /\ TickRanAsImplemented
       /\ TickByAdjustVideoSync.cmds = TickByLoopVideoSync.cmds
       /\ TickByAdjustVideoSync.speed = TickByLoopVideoSync.speed
       /\ TickByAdjustVideoSync.speed = TickByAdjustSync.speed
       /\ SpeedCommands(TickByAdjustVideoSync.cmds) = SpeedCommands(TickByAdjustSync.cmds)
       /\ HasSeek(TickByAdjustVideoSync.cmds) = HasSeek(TickByAdjustSync.cmds)
       /\ Val(tick).seek_expected_ms = Val(tick).expected_ms
          => TickByAdjustVideoSync.cmds = TickByAdjustSync.cmds
       /\ HasSeek(TickByAdjustSync.cmds)
          => TickByAdjustSync.cmds[1] = Seek(MsAsSec(Val(tick).seek_expected_ms))

\* a tick of the stitched loop that left the tracked speed at 0.97 without a
\* command, as the other two implementations do on the same inputs
C36_Witness ==
    /\ app = "display_loop"
    /\ TickHasOffset
    /\ TickOffset = 50
    /\ Val(tick).speed_before = SPEED_MODERATE_SLOW
    /\ Val(tick).result.cmds = <<>>
    /\ TickByAdjustSync.cmds = <<>>
    /\ TickByAdjustVideoSync.speed = SPEED_MODERATE_SLOW

(***************************************************************************)
(* Claims on the player handle of the scene-by-scene loop                  *)
(***************************************************************************)
\* C37: in scene-by-scene mode every player command is issued while a player
\* handle exists: whenever the loop holds a non-empty playlist at the top of
\* an iteration or at the scene switch, self.mpv is set (after the
\* no-scheduled-content screen dropped the player it was restarted before
\* the playlist became non-empty again), and no iteration ends in an
\* AttributeError on the missing handle
C37_PlayerHeldForEveryCommand ==
    app = "scene_by_scene"
    => /\ exception # AttributeError
       /\ (pc \in {"loop_top", "play"} /\ scenes # <<>>) => mpv # None

\* the 5-second re-check found scenes again: the static screen was taken
\* down and the player restarted before the playlist was taken over
C37_Witness ==
    /\ app = "scene_by_scene"
    /\ pc = "loop_top"
    /\ scenes # <<>>
    /\ mpv # None
    /\ screen_ops.screen
    /\ ~screen_ops.player
    /\ screen_ops.ops = <<"kill_feh", "kill_feh", "start_mpv">>

(***************************************************************************)
(* Change-signal specification: the two pollers of the content change      *)
(* signal, the update flag file read by MediaPlayer.run and the            *)
(* modification time of scenes.json read by _run_scene_by_scene_sync       *)
(***************************************************************************)
InitSignal ==
    InitLoop \/ InitPlayer

NextSignal ==
    \/ NextLoop
    \/ NextPlayer

SpecSignal == InitSignal /\ [][NextSignal]_vars

\* the modification time the top-of-loop poll reads: 0 when the file is missing
ObservedMtime ==
    IF scenes_file = None THEN 0 ELSE scenes_mtime

\* the iteration of MediaPlayer.run dropped what it was playing
ReloadedByFlag ==
    /\ is_playing' = FALSE
    /\ loop_video_path' = (IF loop_mp4 THEN Some(LOOP_FILE) ELSE None)
    /\ \/ loop_video_path' = None
       \/ commands' = <<LoadFile(Val(loop_video_path'))>>

C31_LoopEndsOnlyOnShutdown ==
    app = "scene_by_scene"
    => /\ pc # "crashed"
       /\ exception = NoException
       /\ pc = "returned" => ~StillPlaying
       /\ pc = "exited" => ~running

\* a sync tick whose position could not be read issued nothing and the loop
\* went on to its next iteration
C31_Witness ==
    /\ app = "scene_by_scene"
    /\ pc = "loop_top"
    /\ exception = NoException
    /\ tick # None
    /\ Val(tick).actual_sec = None
    /\ Val(tick).result.cmds = <<>>

(***************************************************************************)
(* Speed-tracking specification: the ticks and reloads of the three        *)
(* controllers with the player behind the socket: a command reaches the    *)
(* player or is lost (connection refused, send failed), and the player     *)
(* keeps the speed of the last set_property speed that reached it          *)
(***************************************************************************)
SpeedTrackers == {"display_speed", "display_loop_speed", "media_player_speed"}

\* the speed property of the player after the commands of one step
player_speed_after(cmds, delivered, speed) ==
    IF delivered /\ SpeedCommands(cmds) # <<>>
    THEN SpeedCommands(cmds)[Len(SpeedCommands(cmds))].arg
    ELSE speed

\* the tick of the controller the specification runs
tracker_tick(in, cur_speed) ==
    CASE app = "display_speed" ->
           adjust_video_sync(in.duration_ms, in.expected_ms, in.actual_sec, cur_speed)
      [] app = "display_loop_speed" ->
           loop_video_sync_tick(in.duration_ms, in.expected_ms, in.actual_sec, cur_speed)
      [] OTHER ->
           adjust_sync(in.duration_ms, in.expected_ms, in.expected_ms, in.actual_sec,
                       cur_speed)

InitSpeed ==
    /\ LoopIdle
    /\ app \in SpeedTrackers
    /\ TimelineIdle
    /\ SyncIdle
    /\ ServicesIdle
    /\ ScheduleIdle

SpeedUnchanged ==
    UNCHANGED <<app, monitorVars, bleVars, healthVars, waitVars, playerVars, request_id,
                socket, sent, received, returned, gateVars, peer, swapVars, timelineVars,
                prev_tick, now, scheduleVars, loopVars>>

\* one sync tick (jam_player_display.py 1132-1178 and 1313-1362,
\* jam_player_app.py 400-455): the tracked speed is assigned after set_speed
\* whatever set_speed returned
TrackedTick ==
    /\ app \in SpeedTrackers
    /\ \E in \in LongSyncInputs \cup NoPositionInputs : \E delivered \in BOOLEAN :
        LET result == tracker_tick(in, current_speed)
        IN  /\ result.cmds = <<>> => delivered
            /\ tick' = Some(TickRecord(in, in.expected_ms, result))
            /\ current_speed' = result.speed
            /\ player_speed' = player_speed_after(result.cmds, delivered, player_speed)
    /\ SpeedUnchanged

\* a load of the unit (jam_player_display.py 1556-1563, 1270-1279, 1303-1308;
\* jam_player_app.py 492-497): seek, set_speed(SPEED_NORMAL), tracked speed
\* set to normal
TrackedReload ==
    /\ app \in SpeedTrackers
    /\ tick # None
    /\ \E delivered \in BOOLEAN :
        player_speed' = player_speed_after(<<Seek(0), SetSpeed(SPEED_NORMAL)>>, delivered,
                                           player_speed)
    /\ current_speed' = SPEED_NORMAL
    /\ tick' = None
    /\ SpeedUnchanged

\* the player process is started anew (jam_player_app.py 566-573,
\* jam_player_display.py 1524-1535) and the unit is loaded into it: a new
\* process plays at its default speed
PlayerRestarted ==
    /\ app \in SpeedTrackers
    /\ tick # None
    /\ player_speed' = SPEED_NORMAL
    /\ current_speed' = SPEED_NORMAL
    /\ tick' = None
    /\ SpeedUnchanged

NextSpeed ==
    \/ TrackedTick
    \/ TrackedReload
    \/ PlayerRestarted

SpecSpeed == InitSpeed /\ [][NextSpeed]_vars

(***************************************************************************)
(* Claims on the tracked speed                                             *)
(***************************************************************************)
\* C38: the tracked commanded speed of the controller always equals the speed
\* in effect in the player: a set_speed the player did not receive leaves the
\* tracked speed as it was
C38_TrackedSpeedIsPlayerSpeed ==
    app \in SpeedTrackers => current_speed = player_speed

\* a tick whose set_speed reached the player: both are at the corrected speed
C38_Witness ==
    /\ app \in SpeedTrackers
    /\ tick # None
    /\ SpeedCommands(Val(tick).result.cmds) # <<>>
    /\ current_speed # SPEED_NORMAL
    /\ current_speed = player_speed

(***************************************************************************)
(* Player control protocol: MpvIpcClient._send_command of the display      *)
(* manager, of jam_player_app.py and of utils/mpv_ipc.py over the JSON     *)
(* socket of mpv. A line of the socket is a reply (request_id, error,      *)
(* data), an event (no request_id, no error) or text that is not JSON.     *)
(* socket is None or Some(lines written by the player and not yet read).   *)
(***************************************************************************)
MaxRequests == 3

MaxUnread == 2

IpcClients == {"ipc_display", "ipc_media_player", "ipc_utils"}

Reply(id, error, data) ==
    [kind |-> "json", request_id |-> Some(id), error |-> error, data |-> data]

EventLine == [kind |-> "json", request_id |-> None, error |-> "", data |-> Some("x")]

NotJson == [kind |-> "text", request_id |-> None, error |-> "", data |-> None]

\* what the player writes after a request: its reply, possibly behind an
\* event or a line that does not parse, or nothing when it is gone
PlayerOutput(id) ==
    LET replies == {Reply(id, err, d) : err \in {"success", "property unavailable"},
                                         d \in {None, Some("x"), Some("y")}}
    IN  {<<>>} \cup {<<r>> : r \in replies} \cup {<<EventLine, r>> : r \in replies}
        \cup {<<NotJson, r>> : r \in replies}

\* the first reply of the lines whose data would be returned whatever its id
RECURSIVE parse_response_any_id(_, _)
parse_response_any_id(lines, id) ==
    IF lines = <<>> THEN None
    ELSE IF Head(lines).kind = "json" /\ Head(lines).request_id # None
         THEN IF Head(lines).error = "success" THEN Head(lines).data ELSE None
         ELSE parse_response_any_id(Tail(lines), id)

\* the for loop over the decoded lines (jam_player_display.py 783-797): lines
\* that do not parse are skipped, the first line whose request_id is the id
\* just sent decides: its data on success, None otherwise; None when no line
\* matches
RECURSIVE parse_response(_, _)
parse_response(lines, id) ==
    IF lines = <<>> THEN None
    ELSE IF Head(lines).kind = "json" /\ Head(lines).request_id = Some(id)
         THEN IF Head(lines).error = "success" THEN Head(lines).data ELSE None
         ELSE parse_response(Tail(lines), id)

InitIpc ==
    /\ LoopIdle
    /\ app \in IpcClients
    /\ TimelineIdle
    /\ SyncIdle
    /\ ServicesIdle
    /\ ScheduleIdle

IpcUnchanged ==
    UNCHANGED <<app, monitorVars, bleVars, healthVars, waitVars, playerVars, player_speed,
                gateVars, peer, swapVars, timelineVars, syncVars, now, scheduleVars,
                loopVars>>

\* _send_command: the display manager and jam_player_app.py close the socket
\* and connect anew for every command, utils/mpv_ipc.py keeps its connection;
\* the id is incremented once a connection exists; the read stops at the
\* first chunk that completes a line, so it takes some of the waiting lines
\* and leaves the rest in the socket
SendCommand ==
    /\ app \in IpcClients
    /\ request_id < MaxRequests
    /\ \E connected \in BOOLEAN, written \in BOOLEAN, wait_response \in BOOLEAN :
        LET kept == IF app = "ipc_utils" /\ socket # None THEN socket ELSE None
            unread == IF kept = None THEN <<>> ELSE Val(kept)
        IN  IF kept = None /\ ~connected
            THEN /\ socket' = None
                 /\ returned' = None
                 /\ received' = <<>>
                 /\ UNCHANGED <<request_id, sent>>
            ELSE /\ request_id' = request_id + 1
                 /\ sent' = Append(sent, request_id + 1)
                 /\ IF ~written
                    THEN /\ socket' = None
                         /\ returned' = None
                         /\ received' = <<>>
                    ELSE \E produced \in PlayerOutput(request_id + 1) :
                         LET stream == unread \o produced
                         IN  \E k \in 0 .. Len(stream) :
                             /\ Len(stream) - k <= MaxUnread
                             /\ IF wait_response
                                THEN (k = 0) = (stream = <<>>)
                                ELSE k = 0
                             /\ received' = SubSeq(stream, 1, k)
                             /\ returned' = parse_response(SubSeq(stream, 1, k),
                                                           request_id + 1)
                             /\ socket' = Some(SubSeq(stream, k + 1, Len(stream)))
    /\ IpcUnchanged

\* the client object is made anew with its player (MpvIpcClient.__init__)
ClientCreated ==
    /\ app \in IpcClients
    /\ request_id > 0
    /\ request_id' = 0
    /\ socket' = None
    /\ sent' = <<>>
    /\ received' = <<>>
    /\ returned' = None
    /\ IpcUnchanged

NextIpc ==
    \/ SendCommand
    \/ ClientCreated

SpecIpc == InitIpc /\ [][NextIpc]_vars

(***************************************************************************)
(* Claims on the player control protocol                                   *)
(***************************************************************************)
\* C32: the request ids written to the socket are 1, 2, 3, ... (one more per
\* send), and a value returned by _send_command is the data of a line read
\* for this command whose request_id is the id just sent and whose error is
\* success; lines of another id or without an id are never what is returned
C32_RepliesMatchedByRequestId ==
    app \in IpcClients
    => /\ request_id = Len(sent)
       /\ \A i \in 1 .. Len(sent) : sent[i] = i
       /\ returned # None
          => \E i \in 1 .. Len(received) :
                    /\ received[i].kind = "json"
                    /\ received[i].request_id = Some(request_id)
                    /\ received[i].error = "success"
                    /\ received[i].data = returned

\* utils/mpv_ipc.py read the reply to its second request behind the late
\* reply to the first and returned the data of the second
C32_Witness ==
    /\ app = "ipc_utils"
    /\ sent = <<1, 2>>
    /\ Len(received) = 2
    /\ received[1].request_id = Some(1)
    /\ received[1].error = "success"
    /\ received[1].data = Some("x")
    /\ received[2].request_id = Some(2)
    /\ returned = Some("y")

(***************************************************************************)
(* Claims on the connectivity state of BLEStateManager                     *)
(***************************************************************************)
\* C39: once check_initial_state has run, and after every handler since,
\* _last_connected_state is the online state of the connectivity monitor
C39_LastStateIsMonitorState ==
    (app = "ble_state_manager" /\ ble_pc = "monitoring")
    => last_connected_state = Some(monitor.is_online)

\* the monitor went offline by its own failure count in a check of a handler,
\* and the handler recorded the offline state
C39_Witness ==
    /\ app = "ble_state_manager"
    /\ ble_pc = "monitoring"
    /\ last_check # None
    /\ Val(last_check).was_online
    /\ ~Val(last_check).returned
    /\ monitor.state_changed
    /\ last_connected_state = Some(FALSE)

(***************************************************************************)
(* Content-load specification: load_content of the content manager called  *)
(* again and again by run(), with what the API returns and whether each    *)
(* download succeeds as inputs                                             *)
(***************************************************************************)
\* a scene as the API returns it: the media URL (named by the file it is
\* stored as) and the duration may be missing; whether its download would
\* succeed and whether a file already on disk is empty
ApiScene(id, media_file, duration, download_ok, empty_on_disk) ==
    [id |-> id, media_file |-> media_file, duration |-> duration,
     download_ok |-> download_ok, empty_on_disk |-> empty_on_disk]

ApiScenes ==
    {ApiScene(id, f, d, ok, empty) :
        id \in {"A", "D"}, f \in {None, Some("a.mp4"), Some("d.mp4")},
        d \in {None, Some(10)}, ok \in BOOLEAN, empty \in BOOLEAN}

\* fetch_content: None on failure, else the list of scenes
FetchSamples ==
    {None} \cup {Some(<<>>)} \cup {Some(<<s>>) : s \in ApiScenes}
    \cup {Some(<<s, t>>) : s \in ApiScenes,
                           t \in {ApiScene("D", Some("d.mp4"), Some(10), ok, FALSE) :
                                     ok \in BOOLEAN}}

\* the scene loop without its final verification: a scene is kept even when
\* its download failed
RECURSIVE process_scenes_unverified(_, _, _)
process_scenes_unverified(api, k, files) ==
    IF k > Len(api) THEN [scenes |-> <<>>, files |-> files]
    ELSE LET s == api[k]
             skipped == s.media_file = None \/ s.duration = None
             f == Val(s.media_file)
             files_after == IF skipped THEN files
                            ELSE IF s.download_ok THEN files \cup {f}
                            ELSE files
             rest == process_scenes_unverified(api, k + 1, files_after)
         IN  [scenes |-> (IF ~skipped THEN <<ProcessedScene(s.id, k - 1, f)>> ELSE <<>>)
                         \o rest.scenes,
              files |-> rest.files]

\* lines 452-530: the loop over the fetched scenes from scene k on, with the
\* files of the live media directory: a scene without URL or duration is
\* skipped; an absent or empty file is downloaded (an empty one removed
\* first); the scene is kept when its file exists in the end. order is the
\* index in the fetched list
RECURSIVE process_scenes(_, _, _)
process_scenes(api, k, files) ==
    IF k > Len(api) THEN [scenes |-> <<>>, files |-> files]
    ELSE LET s == api[k]
             skipped == s.media_file = None \/ s.duration = None
             f == Val(s.media_file)
             empty == f \in files /\ s.empty_on_disk
             need_download == f \notin files \/ empty
             files_after == IF skipped THEN files
                            ELSE IF ~need_download THEN files
                            ELSE IF s.download_ok THEN files \cup {f}
                            ELSE files \ {f}
             kept == ~skipped /\ f \in files_after
             rest == process_scenes(api, k + 1, files_after)
         IN  [scenes |-> (IF kept THEN <<ProcessedScene(s.id, k - 1, f)>> ELSE <<>>)
                         \o rest.scenes,
              files |-> rest.files]

InitContent ==
    /\ app = "load_content"
    /\ peer = None
    /\ GateIdle
    /\ TimelineIdle
    /\ SyncIdle
    /\ ServicesIdle
    /\ ScheduleIdle
    /\ pc = "idle"
    /\ running = TRUE
    /\ current_mode = PLAYING_CONTENT
    /\ scenes_mtime = 0
    /\ x_display = TRUE
    /\ mpv = None
    /\ feh_process = None
    /\ feh_images = {}
    /\ screen_ops = NoScreenOps
    /\ current_scene_index = -1
    /\ last_scenes_mtime = None
    /\ content_changed = None
    /\ last_schedule_check = 0
    /\ loaded_scenes = None
    /\ commands = <<>>
    /\ cm_pc = "idle"
    /\ staged_scenes = <<>>
    /\ previous_live = None
    /\ \/ /\ scenes_file = None
          /\ media_files = {}
       \/ \E live \in SwapPlaylists :
            /\ scenes_file = Some(live)
            /\ media_files = referenced_files(live)
    /\ file_truncated = FALSE
    /\ read_missing_media = {}

\* load_content, lines 412-557, as one call: previous_live keeps the live
\* scenes.json the call found, cm_pc what it returned
LoadContent ==
    /\ app = "load_content"
    /\ previous_live' = scenes_file
    /\ \E fetched \in FetchSamples :
        IF fetched = None
        THEN /\ cm_pc' = "returned_false"
             /\ UNCHANGED <<staged_scenes, scenes_file, scenes_mtime, media_files>>
        ELSE LET processed == process_scenes(Val(fetched), 1, media_files)
             IN  /\ staged_scenes' = processed.scenes
                 /\ IF processed.scenes = <<>>
                    THEN /\ cm_pc' = "returned_false"
                         /\ media_files' = processed.files
                         /\ UNCHANGED <<scenes_file, scenes_mtime>>
                    ELSE /\ scenes_mtime < MaxMtime
                         /\ cm_pc' = "returned_true"
                         /\ scenes_file' = Some(processed.scenes)
                         /\ scenes_mtime' = scenes_mtime + 1
                         /\ media_files' =
                              cleanup_unused_media(processed.files,
                                                   referenced_files(processed.scenes))
    /\ UNCHANGED <<app, servicesVars, gateVars, peer, timelineVars, syncVars, now,
                   scheduleVars, file_truncated, read_missing_media, pc, running,
                   current_mode, x_display, mpv, feh_process, feh_images, screen_ops,
                   current_scene_index, last_scenes_mtime, content_changed,
                   last_schedule_check, loaded_scenes, commands>>

\* a media file disappears from, or is left in, the live media directory
\* between two calls (removed by hand, restored from a backup)
MediaFileChanges ==
    /\ app = "load_content"
    /\ cm_pc # "idle"
    /\ \E f \in {"a.mp4", "d.mp4", "e.mp4"} :
        media_files' = IF f \in media_files THEN media_files \ {f}
                       ELSE media_files \cup {f}
    /\ cm_pc' = "idle"
    /\ UNCHANGED <<app, servicesVars, gateVars, peer, timelineVars, syncVars, now,
                   scheduleVars, staged_scenes, previous_live, scenes_file, scenes_mtime,
                   file_truncated, read_missing_media, pc, running,
                   current_mode, x_display, mpv, feh_process, feh_images, screen_ops,
                   current_scene_index, last_scenes_mtime, content_changed,
                   last_schedule_check, loaded_scenes, commands>>

NextContent ==
    \/ LoadContent
    \/ MediaFileChanges

SpecContent == InitContent /\ [][NextContent]_vars

====
